---- MODULE Spec2Model ----
(***************************************************************************)
(* Infinite Wiki: the topic orchestrator of src/App.tsx (the effect keyed  *)
(* on currentTopic, its three generation tasks and the submission          *)
(* handlers), the history tracker it embeds, and the provider client of    *)
(* src/services/geminiService.ts (retry wrapper, response cache, streamed  *)
(* definition, art and image calls).                                       *)
(*                                                                         *)
(* Strings are TLA+ strings; toLowerCase, trim, JSON.stringify and         *)
(* JSON.parse are computed character by character on them.                 *)
(***************************************************************************)
EXTENDS Integers, Sequences, FiniteSets, TLC

(***************************************************************************)
(* Bounds of the model (not program constants).                            *)
(***************************************************************************)
\* generations (runs of the topic effect) in one behaviour
MaxGen == 2
\* chunks the provider sends on one definition stream
MaxChunks == 2
\* transient (rate-limit / overload) failures the provider produces in one behaviour
MaxTransient == 1
\* runs of the topic effect in one behaviour of the history specification
MaxVisits == 12
\* re-visits of an already recorded topic in the history specification
MaxRevisits == 2
\* runs of the topic effect in one behaviour of the cache specification
MaxRuns == 3
\* largest maxRetries callWithRetry is called with in the retry specification
MaxRetriesArg == 3

(***************************************************************************)
(* Program constants.                                                      *)
(***************************************************************************)
\* .slice(0, 10) in updateHistory
HISTORY_CAP == 10
\* maxRetries: number = 5 in callWithRetry
MAX_RETRIES == 5

\* JavaScript null, for the string-valued states (error, art, image, storage)
Null == "<null>"
\* generationTime === null; a measured time t is <<t>>
NoTime == <<>>

(***************************************************************************)
(* String helpers: String.prototype.toLowerCase and String.prototype.trim. *)
(***************************************************************************)
CharAt(s, i) == SubSeq(s, i, i)

LowerChar(c) ==
  CASE c = "A" -> "a" [] c = "B" -> "b" [] c = "C" -> "c" [] c = "D" -> "d"
    [] c = "E" -> "e" [] c = "F" -> "f" [] c = "G" -> "g" [] c = "H" -> "h"
    [] c = "I" -> "i" [] c = "J" -> "j" [] c = "K" -> "k" [] c = "L" -> "l"
    [] c = "M" -> "m" [] c = "N" -> "n" [] c = "O" -> "o" [] c = "P" -> "p"
    [] c = "Q" -> "q" [] c = "R" -> "r" [] c = "S" -> "s" [] c = "T" -> "t"
    [] c = "U" -> "u" [] c = "V" -> "v" [] c = "W" -> "w" [] c = "X" -> "x"
    [] c = "Y" -> "y" [] c = "Z" -> "z" [] OTHER -> c

RECURSIVE lowerChars(_)
lowerChars(s) ==
  IF s = "" THEN ""
  ELSE LowerChar(CharAt(s, 1)) \o lowerChars(SubSeq(s, 2, Len(s)))

\* strings the model lower-cases often, lower-cased once
KnownStrings ==
  {"Hypertext", "hypertext", "Gravity", "gravity", "Echo", "echo",
   "Cat", "cat", "CAT", "Dog", "dog", "DOG", "Eel", "Fox", "Gnu", "Hen", "Imp",
   "Jay", "Kea", "Lar", "Mog"}
LowerCased == [s \in KnownStrings |-> lowerChars(s)]

\* String.prototype.toLowerCase
toLowerCase(s) == IF s \in KnownStrings THEN LowerCased[s] ELSE lowerChars(s)

RECURSIVE trimStart(_)
trimStart(s) ==
  IF s # "" /\ CharAt(s, 1) = " " THEN trimStart(SubSeq(s, 2, Len(s))) ELSE s

RECURSIVE trimEnd(_)
trimEnd(s) ==
  IF s # "" /\ CharAt(s, Len(s)) = " " THEN trimEnd(SubSeq(s, 1, Len(s) - 1)) ELSE s

trim(s) == trimEnd(trimStart(s))

\* item.toLowerCase() !== topic.toLowerCase(), negated
SameTopic(a, b) == toLowerCase(a) = toLowerCase(b)

(***************************************************************************)
(* The topic in the query string.  Topics of the model are made of         *)
(* letters, digits, spaces and the percent sign: encodeURIComponent leaves *)
(* letters and digits and escapes the other two.  Of the escapes, the      *)
(* model decodes those of its own alphabet.                                *)
(***************************************************************************)
IsHexDigit(c) ==
  c \in {"0", "1", "2", "3", "4", "5", "6", "7", "8", "9",
         "A", "B", "C", "D", "E", "F", "a", "b", "c", "d", "e", "f"}

\* the character a two-digit escape stands for
FromHex(h) ==
  CASE h = "25" -> "%" [] h = "20" -> " " [] h = "41" -> "A" [] h = "42" -> "B"
    [] OTHER -> "?"

\* s holds an escape at position i
EscapeAt(s, i) ==
  /\ CharAt(s, i) = "%"
  /\ i + 2 <= Len(s)
  /\ IsHexDigit(CharAt(s, i + 1))
  /\ IsHexDigit(CharAt(s, i + 2))

RECURSIVE encodeURIComponent(_)
encodeURIComponent(s) ==
  IF s = "" THEN ""
  ELSE (CASE CharAt(s, 1) = "%" -> "%25"
          [] CharAt(s, 1) = " " -> "%20"
          [] OTHER -> CharAt(s, 1)) \o encodeURIComponent(SubSeq(s, 2, Len(s)))

RECURSIVE decodeStrict(_)
\* decodeURIComponent: ok is false where it throws URIError (a percent sign
\* that starts no escape)
decodeStrict(s) ==
  IF s = "" THEN [ok |-> TRUE, value |-> ""]
  ELSE IF CharAt(s, 1) # "%"
    THEN LET r == decodeStrict(SubSeq(s, 2, Len(s))) IN
         [ok |-> r.ok, value |-> CharAt(s, 1) \o r.value]
  ELSE IF EscapeAt(s, 1)
    THEN LET r == decodeStrict(SubSeq(s, 4, Len(s))) IN
         [ok |-> r.ok, value |-> FromHex(SubSeq(s, 2, 3)) \o r.value]
  ELSE [ok |-> FALSE, value |-> ""]
decodeURIComponent(s) == decodeStrict(s)

RECURSIVE percentDecode(_)
\* the decoding URLSearchParams applies to a value: escapes are decoded, a
\* percent sign that starts none is kept, a plus sign is a space
percentDecode(s) ==
  IF s = "" THEN ""
  ELSE IF EscapeAt(s, 1)
    THEN FromHex(SubSeq(s, 2, 3)) \o percentDecode(SubSeq(s, 4, Len(s)))
  ELSE IF CharAt(s, 1) = "+" THEN " " \o percentDecode(SubSeq(s, 2, Len(s)))
  ELSE CharAt(s, 1) \o percentDecode(SubSeq(s, 2, Len(s)))

TopicParam == "?topic="

\* new URLSearchParams(window.location.search).get('topic')
urlParamsGetTopic(search) ==
  IF Len(search) >= Len(TopicParam) /\ SubSeq(search, 1, Len(TopicParam)) = TopicParam
    THEN percentDecode(SubSeq(search, Len(TopicParam) + 1, Len(search)))
    ELSE "<null>"

\* getInitialTopic
getInitialTopic(search) ==
  LET topicFromUrl == urlParamsGetTopic(search) IN
  IF topicFromUrl = "<null>" \/ topicFromUrl = "" THEN "Hypertext"
  ELSE IF decodeURIComponent(topicFromUrl).ok
    THEN decodeURIComponent(topicFromUrl).value
  ELSE "Hypertext"

\* `?topic=${encodeURIComponent(currentTopic)}`
relativeUrl(topic) == TopicParam \o encodeURIComponent(topic)

\* if (window.location.search !== relativeUrl) pushState(..., relativeUrl)
pushState(search, topic) ==
  IF search # relativeUrl(topic) THEN relativeUrl(topic) ELSE search

(***************************************************************************)
(* JSON.stringify / JSON.parse for the history array (string[]).  The      *)
(* topics of the model hold no quote and no backslash, so a string literal *)
(* is the text between two quotes.                                         *)
(***************************************************************************)
Quote == "\""

RECURSIVE stringifyItems(_)
stringifyItems(items) ==
  IF items = <<>> THEN ""
  ELSE Quote \o Head(items) \o Quote
       \o (IF Len(items) > 1 THEN "," ELSE "")
       \o stringifyItems(Tail(items))

JSONstringify(items) == "[" \o stringifyItems(items) \o "]"

\* index of the first quote of s at or after position i, 0 when there is none
RECURSIVE findQuote(_, _)
findQuote(s, i) ==
  IF i > Len(s) THEN 0
  ELSE IF CharAt(s, i) = Quote THEN i ELSE findQuote(s, i + 1)

\* the elements of s from position i on, after an opening bracket: a record
\* [ok, items]; wantItem says that a string literal must come next
RECURSIVE parseItems(_, _, _, _)
parseItems(s, i, acc, wantItem) ==
  IF i > Len(s) THEN [ok |-> FALSE, items |-> <<>>]
  ELSE IF wantItem
    THEN IF CharAt(s, i) # Quote THEN [ok |-> FALSE, items |-> <<>>]
         ELSE LET j == findQuote(s, i + 1) IN
              IF j = 0 THEN [ok |-> FALSE, items |-> <<>>]
              ELSE parseItems(s, j + 1, Append(acc, SubSeq(s, i + 1, j - 1)), FALSE)
    ELSE IF CharAt(s, i) = "]"
           THEN [ok |-> i = Len(s), items |-> acc]
         ELSE IF CharAt(s, i) = ","
           THEN parseItems(s, i + 1, acc, TRUE)
         ELSE [ok |-> FALSE, items |-> <<>>]

\* JSON texts that parse to a value that is no array
NonArrayJson == {"{}", "7", "null", "true", "\"Cat\""}

\* JSON.parse: [ok |-> it did not throw, isArray |-> Array.isArray(value), items]
JSONparse(s) ==
  IF s \in NonArrayJson THEN [ok |-> TRUE, isArray |-> FALSE, items |-> <<>>]
  ELSE IF s = "[]" THEN [ok |-> TRUE, isArray |-> TRUE, items |-> <<>>]
  ELSE IF Len(s) >= 2 /\ CharAt(s, 1) = "["
    THEN LET r == parseItems(s, 2, <<>>, TRUE) IN
         [ok |-> r.ok, isArray |-> r.ok, items |-> IF r.ok THEN r.items ELSE <<>>]
  ELSE [ok |-> FALSE, isArray |-> FALSE, items |-> <<>>]

(***************************************************************************)
(* History tracker.                                                        *)
(***************************************************************************)
\* a filter that compares the spellings instead of the lower-cased topics
filterExact(prevHistory, topic) == SelectSeq(prevHistory, LAMBDA item : item # topic)

\* a slice that keeps every element
sliceAll(s, n) == s

RECURSIVE filterOthers(_, _)
\* prevHistory.filter(item => item.toLowerCase() !== topic.toLowerCase())
filterOthers(prevHistory, topic) ==
  IF prevHistory = <<>> THEN <<>>
  ELSE IF SameTopic(Head(prevHistory), topic)
    THEN filterOthers(Tail(prevHistory), topic)
    ELSE <<Head(prevHistory)>> \o filterOthers(Tail(prevHistory), topic)

\* .slice(0, n)
slice0(s, n) == SubSeq(s, 1, IF Len(s) < n THEN Len(s) ELSE n)

\* the updater of updateHistory: [topic, ...filtered].slice(0, 10)
updateHistory(prevHistory, topic) ==
  slice0(<<topic>> \o filterOthers(prevHistory, topic), HISTORY_CAP)

\* a localStorage whose every operation throws (storage disabled or denied)
Unavailable == "<unavailable>"
storageThrows(stored) == stored = Unavailable

\* the history load effect on the stored value: the list handed to
\* setSearchHistory (the state keeps [] when none is), and the stored value left
loadHistory(stored) ==
  IF stored = Null \/ stored = ""
    THEN [history |-> <<>>, stored |-> stored]
  ELSE LET p == JSONparse(stored) IN
       IF ~p.ok THEN [history |-> <<>>, stored |-> Null]
       ELSE IF p.isArray THEN [history |-> p.items, stored |-> stored]
       ELSE [history |-> <<>>, stored |-> stored]

(***************************************************************************)
(* Provider client: error classification, retry decision, cache keys.      *)
(***************************************************************************)
\* String.prototype.includes
Includes(s, sub) ==
  \E i \in 1..(Len(s) - Len(sub) + 1) : SubSeq(s, i, i + Len(sub) - 1) = sub

isRateLimit(errorMessage) ==
  \/ Includes(errorMessage, "429")
  \/ Includes(lowerChars(errorMessage), "too many requests")
  \/ Includes(lowerChars(errorMessage), "quota")

isOverloaded(errorMessage) ==
  \/ Includes(errorMessage, "503")
  \/ Includes(lowerChars(errorMessage), "overloaded")

\* raw error texts of the provider
ProviderErrors ==
  {"429 RESOURCE_EXHAUSTED", "503 The model is overloaded", "blocked: SAFETY"}

\* isRateLimit || isOverloaded, decided once for each error text of the model
Transient == {e \in ProviderErrors : isRateLimit(e) \/ isOverloaded(e)}
isTransient(errorMessage) ==
  IF errorMessage \in ProviderErrors THEN errorMessage \in Transient
  ELSE isRateLimit(errorMessage) \/ isOverloaded(errorMessage)

\* a retry condition without the limit on the attempts
retryWithoutLimit(errorMessage, attempt, maxRetries) ==
  (errorMessage \in ProviderErrors /\ errorMessage \in Transient)
    \/ (errorMessage \notin ProviderErrors
          /\ (isRateLimit(errorMessage) \/ isOverloaded(errorMessage)))

\* a retry condition that does not classify the error
retryAnyError(errorMessage, attempt, maxRetries) == attempt < maxRetries

\* the catch block of callWithRetry: retry (after the backoff delay) or rethrow
shouldRetry(errorMessage, attempt, maxRetries) ==
  isTransient(errorMessage) /\ attempt < maxRetries

\* the branch getApiErrorMessage takes; message.toUpperCase().includes('SAFETY')
\* is decided on the lower-cased text
messageBranch(message) ==
  IF Includes(message, "429") \/ Includes(lowerChars(message), "quota") THEN "busy"
  ELSE IF Includes(lowerChars(message), "safety") THEN "safety"
  ELSE "other"
\* decided once for each error text of the model
BranchOf == [e \in ProviderErrors |-> messageBranch(e)]

getApiErrorMessage(message, context) ==
  LET branch == IF message \in ProviderErrors THEN BranchOf[message]
                ELSE messageBranch(message)
  IN IF branch = "busy"
       THEN "The neural network is extremely busy right now. We are retrying, but the traffic is high. Please try again in a minute."
     ELSE IF branch = "safety"
       THEN "The content for \"" \o context \o "\" was restricted by safety filters."
     ELSE "Could not generate knowledge for \"" \o context \o "\". Check your connection."

asciiCacheKey(topic, style) == "ascii_" \o toLowerCase(topic) \o "_" \o style
imageCacheKey(topic, aspectRatio, style) ==
  "img_" \o toLowerCase(topic) \o "_" \o aspectRatio \o "_" \o style

\* getCache: the stored value, or null when the key is absent
getCache(store, key) == IF key \in DOMAIN store THEN store[key] ELSE Null

\* setCache
setCache(store, key, value) ==
  [k \in DOMAIN store \cup {key} |-> IF k = key THEN value ELSE store[k]]

RECURSIVE repeat(_, _)
\* String.prototype.repeat
repeat(c, n) == IF n <= 0 THEN "" ELSE c \o repeat(c, n - 1)

\* a fallback art that shows the topic whole, however long
createFallbackArtWhole(topic) ==
  LET paddedTopic == " " \o topic \o " "
      border == "+" \o repeat("-", Len(paddedTopic)) \o "+"
  IN border \o "\n" \o "|" \o paddedTopic \o "|" \o "\n" \o border

\* createFallbackArt; "+", "-" and "|" stand for the box-drawing characters
createFallbackArt(topic) ==
  LET displayableTopic ==
        IF Len(topic) > 20 THEN SubSeq(topic, 1, 17) \o "..." ELSE topic
      paddedTopic == " " \o displayableTopic \o " "
      topBorder == "+" \o repeat("-", Len(paddedTopic)) \o "+"
      middle == "|" \o paddedTopic \o "|"
      bottomBorder == "+" \o repeat("-", Len(paddedTopic)) \o "+"
  IN topBorder \o "\n" \o middle \o "\n" \o bottomBorder

(***************************************************************************)
(* The environment: what the user and the provider can do.                 *)
(***************************************************************************)
\* initial topics: getInitialTopic on ?topic=gravity
InitialTopics == {"gravity"}
\* words of UNIQUE_WORDS the random control picks from
RandomWords == <<"Gravity", "Echo">>
\* queries typed into the search box
SearchInputs == {" echo ", " "}
\* words of the rendered definition the user clicks
ClickWords == {"Echo", "gravity"}
\* values found under the history key at startup
StoredValues == {"[\"Echo\"]"}
\* the provider may answer the same request differently
Variants == {"1"}
\* art text of a structured-art response ("" : no usable art field)
ArtOf(topic, v) == "art" \o v \o ":" \o topic
ArtPayloads(topic) == {ArtOf(topic, v) : v \in Variants} \cup {""}
\* inline image data of an image response ("" : no image candidate)
ImageOf(topic, v) == "img" \o v \o ":" \o topic
ImagePayloads(topic) == {ImageOf(topic, v) : v \in Variants} \cup {""}
\* text of the k-th chunk of a stream that has text
ChunkText(k) == IF k = 1 THEN "Echo " ELSE IF k = 2 THEN "**gravity**" ELSE "+"

(***************************************************************************)
(* State.                                                                  *)
(***************************************************************************)
VARIABLES
  currentTopic, content, isLoading, error, asciiArt, imageUrl,
  isImageLoading, generationTime, searchHistory,
  storage, cache, gens, phase, effectPending, transientLeft,
  loadedHistory, recorded, wrapper, locationSearch, proxy

\* React state of App that the generation tasks write
observable ==
  <<content, isLoading, error, asciiArt, imageUrl, isImageLoading, generationTime>>
\* state of the history tracker
historyVars == <<searchHistory, storage, loadedHistory, recorded>>
vars ==
  <<currentTopic, content, isLoading, error, asciiArt, imageUrl,
    isImageLoading, generationTime, searchHistory,
    storage, cache, gens, phase, effectPending, transientLeft,
    loadedHistory, recorded, wrapper, locationSearch, proxy>>

\* a retried call in flight (attempt), a cache hit awaiting its callback (val)
Call(attempt) == [st |-> "calling", attempt |-> attempt, val |-> ""]
Hit(val) == [st |-> "hit", attempt |-> 0, val |-> val]
\* a task whose callback has run: how it ended
Settled(st) == [st |-> st, attempt |-> 0, val |-> ""]
\* positions of a task that is still to resume
Unsettled == {"calling", "hit", "opening", "streaming"}

\* no request is with the proxy
NoProxy ==
  [st |-> "idle", apiKey |-> TRUE, type |-> "<undefined>",
   topic |-> [kind |-> "undefined", value |-> ""],
   statusCode |-> 200, headersSent |-> FALSE, sentStatus |-> 0,
   json |-> [isError |-> FALSE, value |-> ""], written |-> <<>>, ended |-> FALSE,
   providerCalls |-> 0, providerFailed |-> FALSE]

\* no call of callWithRetry is followed on its own
NoWrapper ==
  [st |-> "idle", maxRetries |-> 0, baseDelay |-> 0, attempt |-> 0, calls |-> 0,
   delays |-> <<>>, failures |-> <<>>, result |-> Null]

\* a closure whose stream waits until the art call has settled
NewGenArtFirst(topic, art, img) ==
  [topic |-> topic, isCancelled |-> FALSE, art |-> art, img |-> img,
   def |-> [st |-> IF art.st = "calling" THEN "queued" ELSE "opening", attempt |-> 0],
   accumulatedContent |-> "", sent |-> <<>>]

\* a closure whose definition is taken as streamed when the art is cached
NewGenCachedDefinition(topic, art, img) ==
  [topic |-> topic, isCancelled |-> FALSE, art |-> art, img |-> img,
   def |-> [st |-> IF art.st = "hit" THEN "streaming" ELSE "opening", attempt |-> 0],
   accumulatedContent |-> "", sent |-> <<>>]

\* the closure of one run of the topic effect
NewGen(topic, art, img) ==
  [topic |-> topic, isCancelled |-> FALSE, art |-> art, img |-> img,
   def |-> [st |-> "opening", attempt |-> 0],
   accumulatedContent |-> "", sent |-> <<>>]

\* the generation whose closure is the latest
Latest == Len(gens)

\* a cleanup that leaves the flag of the closure as it is
cleanupKeepsFlag(gen) == gen

\* the cleanup function of a run: isCancelled = true.  Of a superseded run
\* only the tasks still to resume are kept; how the others ended is forgotten
cleanup(gen) ==
  IF gen.isCancelled THEN gen ELSE
  [gen EXCEPT
     !.isCancelled = TRUE,
     !.art = IF @.st \in Unsettled THEN @ ELSE Settled("over"),
     !.img = IF @.st \in Unsettled THEN @ ELSE Settled("over"),
     !.def = IF @.st \in Unsettled THEN @ ELSE [st |-> "over", attempt |-> 0],
     !.accumulatedContent = IF gen.def.st \in Unsettled THEN @ ELSE "",
     !.sent = IF gen.def.st \in Unsettled THEN @ ELSE <<>>]

\* performance.now() - startTime of generation g, kept symbolic
Elapsed(g) == <<g>>

Init ==
  /\ currentTopic \in InitialTopics
  /\ content = ""
  /\ isLoading = TRUE
  /\ error = Null
  /\ asciiArt = Null
  /\ imageUrl = Null
  /\ isImageLoading = TRUE
  /\ generationTime = NoTime
  /\ searchHistory = <<>>
  /\ storage \in StoredValues
  /\ cache = [k \in {} |-> Null]
  /\ gens = <<>>
  /\ phase = "constructed"
  /\ effectPending = TRUE
  /\ transientLeft = MaxTransient
  /\ loadedHistory = <<>>
  /\ recorded = <<>>
  /\ wrapper = NoWrapper
  /\ locationSearch = relativeUrl(currentTopic)
  /\ proxy = NoProxy

(***************************************************************************)
(* Startup and the topic effect.                                           *)
(***************************************************************************)
\* the history load effect (runs once, before the first topic effect)
LoadHistoryEffect ==
  /\ phase = "constructed"
  /\ IF storageThrows(storage)
       THEN \* getItem throws, and so does removeItem in the catch block:
            \* the exception leaves the effect
            /\ phase' = "crashed"
            /\ UNCHANGED <<searchHistory, storage, loadedHistory>>
       ELSE LET r == loadHistory(storage) IN
            /\ searchHistory' = r.history
            /\ storage' = r.stored
            /\ loadedHistory' = r.history
            /\ phase' = "loaded"
  /\ UNCHANGED <<currentTopic, observable, cache, gens, effectPending,
                 transientLeft, recorded, wrapper, locationSearch, proxy>>

\* updateHistory(currentTopic): the new list is published and persisted
RecordCurrentTopic ==
  /\ searchHistory' = updateHistory(searchHistory, currentTopic)
  /\ storage' = IF storageThrows(storage) THEN storage  \* try { setItem } catch (e) {}
                ELSE JSONstringify(searchHistory')
  /\ recorded' = Append(recorded, currentTopic)
  /\ UNCHANGED loadedHistory

\* callbacks that do not look at the closure flag
neverCancelled(g) == FALSE

\* the closure flag a callback of generation g reads
isCancelled(g) == gens[g].isCancelled

\* a start of fetchContentAndArt that leaves the previous art in place
fetchStartKeepingArt ==
  [isLoading |-> TRUE, isImageLoading |-> TRUE, error |-> Null, content |-> "",
   asciiArt |-> asciiArt, imageUrl |-> Null, generationTime |-> NoTime]

\* the state set at the top of fetchContentAndArt
fetchStart ==
  [isLoading |-> TRUE, isImageLoading |-> TRUE, error |-> Null, content |-> "",
   asciiArt |-> Null, imageUrl |-> Null, generationTime |-> NoTime]

\* JSON text of a cached art object and of cached image data, and their parse
stringifyArt(art) == "{\"art\":\"" \o art \o "\"}"
parseArt(text) == SubSeq(text, 9, Len(text) - 2)
stringifyData(data) == Quote \o data \o Quote
parseData(text) == SubSeq(text, 2, Len(text) - 1)

\* an art call that does not look into the cache
startArtUncached(topic) == [st |-> "calling", attempt |-> 0, val |-> ""]

\* generateAsciiArt up to its first await: a cache hit, or attempt 0 of the call
startArt(topic) ==
  LET cached == getCache(cache, asciiCacheKey(topic, "Standard")) IN
  IF cached # Null THEN Hit(parseArt(cached)) ELSE Call(0)

\* generateImage up to its first await; cached empty data is falsy, so a miss
startImage(topic) ==
  LET cached == getCache(cache, imageCacheKey(topic, "16:9", "Cinematic")) IN
  IF cached # Null /\ parseData(cached) # "" THEN Hit(parseData(cached)) ELSE Call(0)

\* the effect keyed on currentTopic: the cleanup of the previous run, then
\* updateHistory and fetchContentAndArt up to its first await
runTopicEffect ==
  /\ phase \in {"loaded", "mounted"}
  /\ effectPending
  /\ RecordCurrentTopic
  /\ isLoading' = fetchStart.isLoading
  /\ isImageLoading' = fetchStart.isImageLoading
  /\ error' = fetchStart.error
  /\ content' = fetchStart.content
  /\ asciiArt' = fetchStart.asciiArt
  /\ imageUrl' = fetchStart.imageUrl
  /\ generationTime' = fetchStart.generationTime
  /\ gens' = Append([g \in 1..Len(gens) |-> cleanup(gens[g])],
                    NewGen(currentTopic, startArt(currentTopic), startImage(currentTopic)))
  /\ phase' = "mounted"
  /\ effectPending' = FALSE
  /\ locationSearch' = pushState(locationSearch, currentTopic)
  /\ UNCHANGED <<currentTopic, cache, transientLeft, wrapper, proxy>>

TopicEffect == Len(gens) < MaxGen /\ runTopicEffect

(***************************************************************************)
(* Submission handlers.                                                    *)
(***************************************************************************)
\* a handler can run and the effect it may trigger can still be modelled
CanSubmitWithin(maxGens) ==
  phase = "mounted" /\ ~effectPending /\ Len(gens) < maxGens
CanSubmit == CanSubmitWithin(MaxGen)

\* setCurrentTopic(topic): React bails out when the value is the same
setCurrentTopic(topic) ==
  /\ topic # currentTopic
  /\ currentTopic' = topic
  /\ effectPending' = TRUE
  /\ UNCHANGED <<observable, historyVars, cache, gens, phase, wrapper, locationSearch, proxy, transientLeft>>

\* handleSearch / handleWordClick: the guard on the trimmed topic
acceptsTopic(newTopic) ==
  newTopic # "" /\ toLowerCase(newTopic) # toLowerCase(currentTopic)

\* handleSearch(topic)
handleSearch(topic) ==
  LET newTopic == trim(topic) IN
  acceptsTopic(newTopic) /\ setCurrentTopic(newTopic)

\* SearchBar.handleSubmit: query.trim() && !disabled, then onSearch(query.trim())
handleSubmit(query) ==
  trim(query) # "" /\ ~isLoading /\ handleSearch(trim(query))

\* the user submits the search form
HandleSearch ==
  /\ CanSubmit
  /\ \E query \in SearchInputs : handleSubmit(query)

\* a word of the rendered definition (rendered when loaded without error)
HandleWordClick ==
  /\ CanSubmit
  /\ ~isLoading /\ error = Null /\ content # ""
  /\ \E word \in ClickWords :
       /\ Includes(content, word)
       /\ acceptsTopic(trim(word))
       /\ setCurrentTopic(trim(word))

\* handleRandom
handleRandom ==
  \E randomIndex \in 1..Len(RandomWords) :
    setCurrentTopic(RandomWords[randomIndex])

\* handleRandom: the logo is never disabled
HandleRandom == CanSubmit /\ handleRandom

\* handleHistoryClick (the history buttons are disabled while loading)
HandleHistoryClick ==
  /\ CanSubmit
  /\ ~isLoading
  /\ \E i \in 1..Len(searchHistory) :
       /\ toLowerCase(searchHistory[i]) # toLowerCase(currentTopic)
       /\ setCurrentTopic(searchHistory[i])

(***************************************************************************)
(* The three tasks of a generation.  A provider answer and the callbacks   *)
(* it resumes are one step; a wait for the backoff timer and the call that *)
(* follows it are part of the step that decided to retry.                  *)
(***************************************************************************)
Started(g) == g \in 1..Len(gens)

\* the provider may fail this call with this error
MayFail(e, attempt) ==
  shouldRetry(e, attempt, MAX_RETRIES) => transientLeft > 0

\* transient failures still available after this one
AfterFailure(e, attempt) ==
  IF shouldRetry(e, attempt, MAX_RETRIES) THEN transientLeft - 1 ELSE transientLeft

\* a task whose promise can settle again after its callback has run
EndedStillPending(g, task, applied) == task

\* a task of generation g whose callback has run: applied to the state, or
\* dropped as cancelled (after that many retries)
Ended(g, task, applied) ==
  IF isCancelled(g)
    THEN [st |-> "dropped", attempt |-> task.attempt, val |-> ""]
    ELSE Settled(applied)

\* the closure of generation g once its definition task has ended
DefinitionOver(g, applied) ==
  IF isCancelled(g)
    THEN [gens[g] EXCEPT !.def = [st |-> "dropped", attempt |-> @.attempt],
                         !.accumulatedContent = "", !.sent = <<>>]
    ELSE [gens[g] EXCEPT !.def = [st |-> applied, attempt |-> 0]]

\* the same when the provider's error e ended it
DefinitionFailed(g, e) ==
  IF isCancelled(g) THEN DefinitionOver(g, "failed")
  ELSE [gens[g] EXCEPT !.def = [st |-> "failed", attempt |-> 0, cause |-> e]]

\* .then(art => { if (!isCancelled) setAsciiArt(art); })
artThen(g, art) == IF isCancelled(g) THEN asciiArt ELSE art

\* a catch callback that sets no art
artCatchNothing(g) == asciiArt

\* a catch callback that shows no art
artCatchNull(g) == IF gens[g].isCancelled THEN asciiArt ELSE Null

\* .catch(() => { if (!isCancelled) setAsciiArt(createFallbackArt(currentTopic)); })
artCatch(g) == IF isCancelled(g) THEN asciiArt ELSE createFallbackArt(gens[g].topic)

\* generateAsciiArt resumed by the provider's answer; its promise settles
\* and the art callback of App runs
\* parsed data stored before its art is looked at
cacheParsedDataUnchecked(store, cacheKey, art) ==
  setCache(store, cacheKey, stringifyArt(art))

\* if (!parsedData.art) throw new Error('Empty art'); setCache(cacheKey, parsedData)
cacheParsedData(store, cacheKey, art) ==
  IF art = "" THEN store ELSE setCache(store, cacheKey, stringifyArt(art))

artResponse(g, texts) ==
  /\ Started(g)
  /\ gens[g].art.st = "calling"
  /\ \E text \in texts :
       /\ cache' = cacheParsedData(cache, asciiCacheKey(gens[g].topic, "Standard"), text)
       /\ IF text = ""
            THEN /\ asciiArt' = artCatch(g)
                 /\ gens' = [gens EXCEPT ![g].art = Ended(g, @, "fallback")]
            ELSE /\ asciiArt' = artThen(g, text)
              /\ gens' = [gens EXCEPT ![g].art = Ended(g, @, "done")]
  /\ UNCHANGED <<currentTopic, content, isLoading, error, imageUrl, isImageLoading,
                 generationTime, historyVars, phase, wrapper, locationSearch, proxy, effectPending, transientLeft>>

\* the provider answers the art call: one text per topic, or none
ArtResponse(g) == artResponse(g, ArtPayloads(gens[g].topic))

\* the same with a provider that may answer two calls for one topic with
\* different texts
ArtResponseAny(g) == artResponse(g, {ArtOf(gens[g].topic, v) : v \in {"1", "2"}} \cup {""})

\* the art call fails: callWithRetry retries or rethrows, and a rethrown
\* error ends in the fallback art
ArtFailure(g) ==
  /\ Started(g)
  /\ gens[g].art.st = "calling"
  /\ \E e \in ProviderErrors :
       /\ MayFail(e, gens[g].art.attempt)
       /\ transientLeft' = AfterFailure(e, gens[g].art.attempt)
       /\ IF shouldRetry(e, gens[g].art.attempt, MAX_RETRIES)
            THEN /\ gens' = [gens EXCEPT ![g].art = Call(@.attempt + 1)]
                 /\ UNCHANGED asciiArt
            ELSE /\ asciiArt' = artCatch(g)
                 /\ gens' = [gens EXCEPT ![g].art = Ended(g, @, "fallback")]
  /\ UNCHANGED <<currentTopic, content, isLoading, error, imageUrl, isImageLoading,
                 generationTime, historyVars, cache, phase, wrapper, locationSearch, proxy, effectPending>>

\* the art callback after a cache hit
ArtCacheHit(g) ==
  /\ Started(g)
  /\ gens[g].art.st = "hit"
  /\ asciiArt' = artThen(g, gens[g].art.val)
  /\ gens' = [gens EXCEPT ![g].art = Ended(g, @, "done")]
  /\ UNCHANGED <<currentTopic, content, isLoading, error, imageUrl, isImageLoading,
                 generationTime, historyVars, cache, phase, wrapper, locationSearch, proxy, effectPending, transientLeft>>

\* .then(base64Image => { if (!isCancelled) setImageUrl(base64Image); })
imageThen(g, base64Image) == IF isCancelled(g) THEN imageUrl ELSE base64Image

\* a finally callback that leaves the flag as it is
imageFinallyKeeps(g) == isImageLoading

\* .finally(() => { if (!isCancelled) setIsImageLoading(false); })
imageFinally(g) == IF isCancelled(g) THEN isImageLoading ELSE FALSE

\* generateImage resumed by the provider's answer (data, or "" for no image
\* candidate: null is returned and nothing is cached)
ImageResponse(g) ==
  /\ Started(g)
  /\ gens[g].img.st = "calling"
  /\ \E data \in ImagePayloads(gens[g].topic) :
       /\ cache' = IF data = "" THEN cache
                   ELSE setCache(cache, imageCacheKey(gens[g].topic, "16:9", "Cinematic"),
                                 stringifyData(data))
       /\ imageUrl' = imageThen(g, IF data = "" THEN Null ELSE data)
       /\ gens' = [gens EXCEPT ![g].img =
                     Ended(g, @, IF data = "" THEN "absent" ELSE "done")]
  /\ isImageLoading' = imageFinally(g)
  /\ UNCHANGED <<currentTopic, content, isLoading, error, asciiArt,
                 generationTime, historyVars, phase, wrapper, locationSearch, proxy, effectPending, transientLeft>>

\* a promise that has settled
Resolved(value) == [settled |-> "resolved", value |-> value]
Rejected(reason) == [settled |-> "rejected", value |-> reason]

\* a catch block of generateImage that throws the error on
generateImageRethrows(e) == Rejected(e)

\* catch (error) { return null; } of generateImage
generateImageCatch(e) == Resolved(Null)

\* the image call fails: a retry, or the catch block of generateImage settles
\* the promise; App chains then and finally on it and no catch, so that a
\* rejection would skip then, run finally and stay unhandled
ImageFailure(g) ==
  /\ Started(g)
  /\ gens[g].img.st = "calling"
  /\ \E e \in ProviderErrors :
       /\ MayFail(e, gens[g].img.attempt)
       /\ transientLeft' = AfterFailure(e, gens[g].img.attempt)
       /\ IF shouldRetry(e, gens[g].img.attempt, MAX_RETRIES)
            THEN /\ gens' = [gens EXCEPT ![g].img = Call(@.attempt + 1)]
                 /\ UNCHANGED <<imageUrl, isImageLoading>>
            ELSE LET promise == generateImageCatch(e) IN
                 /\ isImageLoading' = imageFinally(g)
                 /\ IF promise.settled = "resolved"
                      THEN /\ imageUrl' = imageThen(g, promise.value)
                           /\ gens' = [gens EXCEPT ![g].img = Ended(g, @, "absent")]
                      ELSE /\ UNCHANGED imageUrl
                           /\ gens' = [gens EXCEPT ![g].img = Settled("unhandled")]
  /\ UNCHANGED <<currentTopic, content, isLoading, error, asciiArt,
                 generationTime, historyVars, cache, phase, wrapper, locationSearch, proxy, effectPending>>

\* the image callbacks after a cache hit
ImageCacheHit(g) ==
  /\ Started(g)
  /\ gens[g].img.st = "hit"
  /\ imageUrl' = imageThen(g, gens[g].img.val)
  /\ isImageLoading' = imageFinally(g)
  /\ gens' = [gens EXCEPT ![g].img = Ended(g, @, "done")]
  /\ UNCHANGED <<currentTopic, content, isLoading, error, asciiArt,
                 generationTime, historyVars, cache, phase, wrapper, locationSearch, proxy, effectPending, transientLeft>>

\* a loop body that puts the chunk in front
prependChunk(accumulatedContent, chunk) == chunk \o accumulatedContent

\* accumulatedContent += chunk
appendChunk(accumulatedContent, chunk) == accumulatedContent \o chunk

\* catch (e) { if (!isCancelled) setError(e.message || '...'); }
defCatch(g, message) ==
  IF isCancelled(g) THEN error
  ELSE IF message # "" THEN message
  ELSE "The neural network encountered an interference."

\* what the catch block makes of the content (App.tsx leaves it as it is)
defCatchContent(g) == content

\* a finally block that records the time and leaves the loading flag set
defFinallyStillLoading(g) ==
  IF gens[g].isCancelled
    THEN [generationTime |-> generationTime, isLoading |-> isLoading]
    ELSE [generationTime |-> <<g>>, isLoading |-> isLoading]

\* finally { if (!isCancelled) { setGenerationTime(...); setIsLoading(false); } }
defFinally(g) ==
  IF isCancelled(g)
    THEN [generationTime |-> generationTime, isLoading |-> isLoading]
    ELSE [generationTime |-> Elapsed(g), isLoading |-> FALSE]

\* streamDefinition rethrows with the user-facing message; the catch and
\* finally blocks of fetchContentAndArt run
DefinitionFails(g, e) ==
  /\ error' = defCatch(g, getApiErrorMessage(e, gens[g].topic))
  /\ content' = defCatchContent(g)
  /\ generationTime' = defFinally(g).generationTime
  /\ isLoading' = defFinally(g).isLoading
  /\ gens' = [gens EXCEPT ![g] = DefinitionFailed(g, e)]

\* the call that opens the stream succeeds
DefOpenResponse(g) ==
  /\ Started(g)
  /\ gens[g].def.st = "opening"
  /\ gens' = [gens EXCEPT ![g].def.st = "streaming"]
  /\ UNCHANGED <<currentTopic, observable, historyVars, cache, phase, wrapper, locationSearch, proxy,
                 effectPending, transientLeft>>

\* the call that opens the stream fails: a retry, or the definition fails
DefOpenFailure(g) ==
  /\ Started(g)
  /\ gens[g].def.st = "opening"
  /\ \E e \in ProviderErrors :
       /\ MayFail(e, gens[g].def.attempt)
       /\ transientLeft' = AfterFailure(e, gens[g].def.attempt)
       /\ IF shouldRetry(e, gens[g].def.attempt, MAX_RETRIES)
            THEN /\ gens' = [gens EXCEPT ![g].def.attempt = @ + 1]
                 /\ UNCHANGED <<error, content, generationTime, isLoading>>
            ELSE DefinitionFails(g, e)
  /\ UNCHANGED <<currentTopic, asciiArt, imageUrl, isImageLoading, historyVars,
                 cache, phase, wrapper, locationSearch, proxy, effectPending>>

\* the provider sends the next chunk that has text (one without text is
\* skipped by streamDefinition and changes nothing): it is yielded to the loop
\* of fetchContentAndArt, which breaks when cancelled
StreamChunk(g) ==
  /\ Started(g)
  /\ gens[g].def.st = "streaming"
  /\ Len(gens[g].sent) < MaxChunks
  /\ LET chunk == ChunkText(Len(gens[g].sent) + 1) IN
       IF isCancelled(g)
         THEN /\ gens' = [gens EXCEPT ![g] = DefinitionOver(g, "ended")]
              /\ UNCHANGED content
         ELSE /\ gens' = [gens EXCEPT
                            ![g].sent = Append(@, chunk),
                            ![g].accumulatedContent = appendChunk(@, chunk)]
              /\ content' = appendChunk(gens[g].accumulatedContent, chunk)
  /\ UNCHANGED <<currentTopic, isLoading, error, asciiArt, imageUrl, isImageLoading,
                 generationTime, historyVars, cache, phase, wrapper, locationSearch, proxy, effectPending,
                 transientLeft>>

\* the provider ends the stream: the loop ends and the finally block runs
StreamEnd(g) ==
  /\ Started(g)
  /\ gens[g].def.st = "streaming"
  /\ generationTime' = defFinally(g).generationTime
  /\ isLoading' = defFinally(g).isLoading
  /\ gens' = [gens EXCEPT ![g] = DefinitionOver(g, "ended")]
  /\ UNCHANGED <<currentTopic, content, error, asciiArt, imageUrl, isImageLoading,
                 historyVars, cache, phase, wrapper, locationSearch, proxy, effectPending, transientLeft>>

\* a stream that is opened again when it fails with a transient error
StreamErrorReplays(g) ==
  /\ Started(g)
  /\ gens[g].def.st = "streaming"
  /\ \E e \in ProviderErrors :
       IF isTransient(e)
         THEN /\ gens' = [gens EXCEPT ![g].def = [st |-> "opening", attempt |-> 0]]
              /\ UNCHANGED <<error, content, generationTime, isLoading>>
         ELSE DefinitionFails(g, e)
  /\ UNCHANGED <<currentTopic, asciiArt, imageUrl, isImageLoading, historyVars,
                 cache, phase, wrapper, locationSearch, proxy, effectPending, transientLeft>>

\* the stream fails after it was opened: no retry, the definition fails
StreamError(g) ==
  /\ Started(g)
  /\ gens[g].def.st = "streaming"
  /\ \E e \in ProviderErrors : DefinitionFails(g, e)
  /\ UNCHANGED <<currentTopic, asciiArt, imageUrl, isImageLoading, historyVars,
                 cache, phase, wrapper, locationSearch, proxy, effectPending, transientLeft>>

Next ==
  \/ LoadHistoryEffect
  \/ TopicEffect
  \/ HandleSearch
  \/ HandleWordClick
  \/ HandleRandom
  \/ HandleHistoryClick
  \/ \E g \in 1..MaxGen : ArtResponse(g)
  \/ \E g \in 1..MaxGen : ArtFailure(g)
  \/ \E g \in 1..MaxGen : ArtCacheHit(g)
  \/ \E g \in 1..MaxGen : ImageResponse(g)
  \/ \E g \in 1..MaxGen : ImageFailure(g)
  \/ \E g \in 1..MaxGen : ImageCacheHit(g)
  \/ \E g \in 1..MaxGen : DefOpenResponse(g)
  \/ \E g \in 1..MaxGen : DefOpenFailure(g)
  \/ \E g \in 1..MaxGen : StreamChunk(g)
  \/ \E g \in 1..MaxGen : StreamEnd(g)
  \/ \E g \in 1..MaxGen : StreamError(g)

Spec == Init /\ [][Next]_vars

(***************************************************************************)
(* The history tracker on its own: the user visits one topic after the     *)
(* other through the search form, each time after the definition of the    *)
(* current topic has loaded.  The art and image tasks, and the tasks of    *)
(* superseded generations, stay pending: they do not touch the history.    *)
(***************************************************************************)
\* values found under the history key at startup (Null: no entry)
HistoryStoredValues ==
  {Null, "[]", "not json", "{}", "[\"dog\",\"Dog\"]", "[\"Dog\",\"cat\"]"}
\* topics the user visits for the first time, in this order
HistoryTopics ==
  <<"Cat", "Dog", "Eel", "Fox", "Gnu", "Hen", "Imp", "Jay", "Kea", "Lar", "Mog">>
\* topics the user comes back to
Revisits == {"Cat", "cat", "Dog"}

Range(seq) == {seq[i] : i \in 1..Len(seq)}
\* the topics of HistoryTopics visited so far, and the re-visits made so far
visited == Range(recorded) \cap Range(HistoryTopics)
revisits == Len(recorded) - Cardinality(visited)
\* the next topic of HistoryTopics, when one is left
FreshTopics ==
  IF Cardinality(visited) < Len(HistoryTopics)
    THEN {HistoryTopics[CHOOSE i \in 1..Len(HistoryTopics) :
                          /\ HistoryTopics[i] \notin visited
                          /\ \A j \in 1..(i - 1) : HistoryTopics[j] \in visited]}
    ELSE {}

InitHistory ==
  /\ currentTopic = HistoryTopics[1]
  /\ content = ""
  /\ isLoading = TRUE
  /\ error = Null
  /\ asciiArt = Null
  /\ imageUrl = Null
  /\ isImageLoading = TRUE
  /\ generationTime = NoTime
  /\ searchHistory = <<>>
  /\ storage \in HistoryStoredValues
  /\ cache = [k \in {} |-> Null]
  /\ gens = <<>>
  /\ phase = "constructed"
  /\ effectPending = TRUE
  /\ transientLeft = 0
  /\ loadedHistory = <<>>
  /\ recorded = <<>>
  /\ wrapper = NoWrapper
  /\ locationSearch = relativeUrl(currentTopic)
  /\ proxy = NoProxy

HistoryTopicEffect == Len(gens) < MaxVisits /\ runTopicEffect

\* the search form, once the current definition has loaded
HistorySearch ==
  /\ CanSubmitWithin(MaxVisits)
  /\ \E query \in FreshTopics \cup Revisits :
       /\ query \in FreshTopics \/ revisits < MaxRevisits
       /\ handleSubmit(query)

NextHistory ==
  \/ LoadHistoryEffect
  \/ HistoryTopicEffect
  \/ DefOpenResponse(Latest)
  \/ StreamEnd(Latest)
  \/ HistorySearch

SpecHistory == InitHistory /\ [][NextHistory]_vars

(***************************************************************************)
(* callWithRetry on its own: one call of the wrapper with maxRetries and   *)
(* baseDelay, around an operation that the environment lets succeed or     *)
(* fail at each attempt.                                                   *)
(***************************************************************************)
\* every variable of the application
appVars ==
  <<currentTopic, content, isLoading, error, asciiArt, imageUrl,
    isImageLoading, generationTime, searchHistory,
    storage, cache, gens, phase, effectPending, transientLeft,
    loadedHistory, recorded, locationSearch, proxy>>

\* baseDelay: number = 2000
BaseDelays == {2000}
\* the factor of Math.random() in the jitter
JITTER_MAX == 500
\* Math.random() * 500, at the ends of its range
JitterValues == {0, 499}

RECURSIVE pow2(_)
\* Math.pow(2, attempt)
pow2(n) == IF n <= 0 THEN 1 ELSE 2 * pow2(n - 1)

\* a delay that grows by baseDelay with each attempt
backoffLinear(baseDelay, attempt, jitter) == baseDelay * (attempt + 1) + jitter

\* (baseDelay * Math.pow(2, attempt)) + jitter
backoffDelay(baseDelay, attempt, jitter) == baseDelay * pow2(attempt) + jitter

InitRetry ==
  /\ currentTopic \in InitialTopics
  /\ content = ""
  /\ isLoading = TRUE
  /\ error = Null
  /\ asciiArt = Null
  /\ imageUrl = Null
  /\ isImageLoading = TRUE
  /\ generationTime = NoTime
  /\ searchHistory = <<>>
  /\ storage \in StoredValues
  /\ cache = [k \in {} |-> Null]
  /\ gens = <<>>
  /\ phase = "constructed"
  /\ effectPending = TRUE
  /\ transientLeft = 0
  /\ loadedHistory = <<>>
  /\ recorded = <<>>
  /\ \E maxRetries \in 0..MaxRetriesArg, baseDelay \in BaseDelays :
       wrapper = [NoWrapper EXCEPT !.maxRetries = maxRetries, !.baseDelay = baseDelay]
  /\ locationSearch = relativeUrl(currentTopic)
  /\ proxy = NoProxy

\* throw error: the caught error itself, with nothing added to it
throwError(e) == e

\* throw lastError, after the loop
throwLastError(lastError) == lastError

\* callWithRetry is called: attempt = 0 passes the loop test and fn() is invoked
WrapperInvoke ==
  /\ wrapper.st = "idle"
  /\ 0 <= wrapper.maxRetries
  /\ wrapper' = [wrapper EXCEPT !.st = "calling", !.attempt = 0, !.calls = 1]
  /\ UNCHANGED appVars

\* what the operation resolves to when it is invoked for the n-th time
ResultOfCall(n) == "result of call " \o ToString(n)

\* a wrapper that goes round its loop again after a success
returnAfterLoop(w, value) ==
  IF w.attempt < w.maxRetries
    THEN [w EXCEPT !.attempt = @ + 1, !.calls = @ + 1]
    ELSE [w EXCEPT !.st = "returned", !.result = value]

\* return await fn(), when fn() resolves
returnAwait(w, value) == [w EXCEPT !.st = "returned", !.result = value]

\* return await fn(): the operation succeeds
WrapperResolves ==
  /\ wrapper.st = "calling"
  /\ wrapper' = returnAwait(wrapper, ResultOfCall(wrapper.calls))
  /\ UNCHANGED appVars

\* the operation fails: the catch block starts the backoff wait or rethrows
WrapperRejects ==
  /\ wrapper.st = "calling"
  /\ \E e \in ProviderErrors, jitter \in JitterValues :
       IF shouldRetry(e, wrapper.attempt, wrapper.maxRetries)
         THEN wrapper' = [wrapper EXCEPT
                !.st = "waiting",
                !.failures = Append(@, e),
                !.delays = Append(@, backoffDelay(wrapper.baseDelay, wrapper.attempt, jitter))]
         ELSE /\ jitter = 0
              /\ wrapper' = [wrapper EXCEPT
                   !.st = "thrown", !.failures = Append(@, e), !.result = throwError(e)]
  /\ UNCHANGED appVars

\* the backoff timer fires: continue, attempt++, then fn() again when the
\* loop test passes, and throw lastError after the loop when it does not
WrapperTimer ==
  /\ wrapper.st = "waiting"
  /\ IF wrapper.attempt + 1 <= wrapper.maxRetries
       THEN wrapper' = [wrapper EXCEPT
              !.st = "calling", !.attempt = @ + 1, !.calls = @ + 1]
       ELSE wrapper' = [wrapper EXCEPT
              !.st = "thrown", !.attempt = @ + 1,
              !.result = throwLastError(wrapper.failures[Len(wrapper.failures)])]
  /\ UNCHANGED appVars

NextRetry ==
  \/ WrapperInvoke
  \/ WrapperResolves
  \/ WrapperRejects
  \/ WrapperTimer

SpecRetry == InitRetry /\ [][NextRetry]_vars

(***************************************************************************)
(* One generation during an outage of the provider: every call may fail    *)
(* with a transient error until its retries are exhausted.                 *)
(***************************************************************************)
\* retries the three tasks of a generation can make together
OutageRetries == 3 * MAX_RETRIES

InitOutage ==
  /\ currentTopic \in InitialTopics
  /\ content = ""
  /\ isLoading = TRUE
  /\ error = Null
  /\ asciiArt = Null
  /\ imageUrl = Null
  /\ isImageLoading = TRUE
  /\ generationTime = NoTime
  /\ searchHistory = <<>>
  /\ storage \in StoredValues
  /\ cache = [k \in {} |-> Null]
  /\ gens = <<>>
  /\ phase = "constructed"
  /\ effectPending = TRUE
  /\ transientLeft = OutageRetries
  /\ loadedHistory = <<>>
  /\ recorded = <<>>
  /\ wrapper = NoWrapper
  /\ locationSearch = relativeUrl(currentTopic)
  /\ proxy = NoProxy

NextOutage ==
  \/ LoadHistoryEffect
  \/ TopicEffect
  \/ ArtResponse(Latest)
  \/ ArtFailure(Latest)
  \/ ImageResponse(Latest)
  \/ ImageFailure(Latest)
  \/ DefOpenResponse(Latest)
  \/ DefOpenFailure(Latest)
  \/ StreamChunk(Latest)
  \/ StreamEnd(Latest)
  \/ StreamError(Latest)

SpecOutage == InitOutage /\ [][NextOutage]_vars

\* the same where the effects run and every provider call and stream settles:
\* each call is answered or fails, each backoff timer fires, and an open
\* stream ends or fails
SpecOutageFair ==
  /\ SpecOutage
  /\ WF_vars(LoadHistoryEffect)
  /\ WF_vars(TopicEffect)
  /\ WF_vars(ArtResponse(Latest) \/ ArtFailure(Latest))
  /\ WF_vars(ImageResponse(Latest) \/ ImageFailure(Latest))
  /\ WF_vars(DefOpenResponse(Latest) \/ DefOpenFailure(Latest))
  /\ WF_vars(StreamEnd(Latest) \/ StreamError(Latest))

(***************************************************************************)
(* The response cache over re-visits: the user goes from topic to topic    *)
(* with the logo, which is never disabled, and comes back to a topic       *)
(* whose art and image were stored.  No transient failure occurs.          *)
(***************************************************************************)
InitCache ==
  /\ currentTopic = RandomWords[1]
  /\ content = ""
  /\ isLoading = TRUE
  /\ error = Null
  /\ asciiArt = Null
  /\ imageUrl = Null
  /\ isImageLoading = TRUE
  /\ generationTime = NoTime
  /\ searchHistory = <<>>
  /\ storage \in StoredValues
  /\ cache = [k \in {} |-> Null]
  /\ gens = <<>>
  /\ phase = "constructed"
  /\ effectPending = TRUE
  /\ transientLeft = 0
  /\ loadedHistory = <<>>
  /\ recorded = <<>>
  /\ wrapper = NoWrapper
  /\ locationSearch = relativeUrl(currentTopic)
  /\ proxy = NoProxy

CacheTopicEffect == Len(gens) < MaxRuns /\ runTopicEffect

CacheRandom == CanSubmitWithin(MaxRuns) /\ handleRandom

NextCache ==
  \/ LoadHistoryEffect
  \/ CacheTopicEffect
  \/ CacheRandom
  \/ \E g \in 1..MaxRuns : ArtResponseAny(g)
  \/ \E g \in 1..MaxRuns : ArtFailure(g)
  \/ \E g \in 1..MaxRuns : ArtCacheHit(g)
  \/ \E g \in 1..MaxRuns : ImageResponse(g)
  \/ \E g \in 1..MaxRuns : ImageFailure(g)
  \/ \E g \in 1..MaxRuns : ImageCacheHit(g)
  \/ DefOpenResponse(Latest)

SpecCache == InitCache /\ [][NextCache]_vars

(***************************************************************************)
(* Durable storage that fails: one generation, started with a storage      *)
(* that holds a history, holds a corrupt value, or throws on every access. *)
(***************************************************************************)
FailingStoredValues == {Unavailable, "not json", "[\"Echo\"]"}

InitStorage ==
  /\ currentTopic \in InitialTopics
  /\ content = ""
  /\ isLoading = TRUE
  /\ error = Null
  /\ asciiArt = Null
  /\ imageUrl = Null
  /\ isImageLoading = TRUE
  /\ generationTime = NoTime
  /\ searchHistory = <<>>
  /\ storage \in FailingStoredValues
  /\ cache = [k \in {} |-> Null]
  /\ gens = <<>>
  /\ phase = "constructed"
  /\ effectPending = TRUE
  /\ transientLeft = 0
  /\ loadedHistory = <<>>
  /\ recorded = <<>>
  /\ wrapper = NoWrapper
  /\ locationSearch = relativeUrl(currentTopic)
  /\ proxy = NoProxy

SpecStorage == InitStorage /\ [][NextOutage]_vars

(***************************************************************************)
(* The topic in the address: the page is opened at an address, the topic   *)
(* effect writes the current topic into the query string, and the page is  *)
(* opened again at the address it shows.  localStorage and sessionStorage  *)
(* outlive the reload.                                                     *)
(***************************************************************************)
UrlsOnLoad ==
  {"", "?topic=Echo", "?topic=a%20b", "?topic=100%2525", "?topic=%252542"}

InitUrl ==
  /\ locationSearch \in UrlsOnLoad
  /\ proxy = NoProxy
  /\ currentTopic = getInitialTopic(locationSearch)
  /\ content = ""
  /\ isLoading = TRUE
  /\ error = Null
  /\ asciiArt = Null
  /\ imageUrl = Null
  /\ isImageLoading = TRUE
  /\ generationTime = NoTime
  /\ searchHistory = <<>>
  /\ storage = Null
  /\ cache = [k \in {} |-> Null]
  /\ gens = <<>>
  /\ phase = "constructed"
  /\ effectPending = TRUE
  /\ transientLeft = 0
  /\ loadedHistory = <<>>
  /\ recorded = <<>>
  /\ wrapper = NoWrapper

\* the page is loaded again at the address it shows: App is constructed anew
Reload ==
  /\ phase = "mounted"
  /\ ~effectPending
  /\ currentTopic' = getInitialTopic(locationSearch)
  /\ content' = ""
  /\ isLoading' = TRUE
  /\ error' = Null
  /\ asciiArt' = Null
  /\ imageUrl' = Null
  /\ isImageLoading' = TRUE
  /\ generationTime' = NoTime
  /\ searchHistory' = <<>>
  /\ gens' = <<>>
  /\ phase' = "constructed"
  /\ effectPending' = TRUE
  /\ loadedHistory' = <<>>
  /\ recorded' = <<>>
  /\ UNCHANGED <<storage, cache, transientLeft, wrapper, locationSearch, proxy>>

NextUrl ==
  \/ LoadHistoryEffect
  \/ TopicEffect
  \/ ArtResponse(Latest)
  \/ ImageResponse(Latest)
  \/ DefOpenResponse(Latest)
  \/ StreamEnd(Latest)
  \/ Reload

SpecUrl == InitUrl /\ [][NextUrl]_vars

(***************************************************************************)
(* The serverless proxy (src/api/proxy.ts): one request, from the call of  *)
(* the handler to the end of its response.  The response keeps what the    *)
(* handler set (statusCode) apart from what went out (sentStatus, written, *)
(* json): the status line leaves with the first write.                     *)
(***************************************************************************)
clientVars ==
  <<currentTopic, content, isLoading, error, asciiArt, imageUrl,
    isImageLoading, generationTime, searchHistory,
    storage, cache, gens, phase, effectPending, transientLeft,
    loadedHistory, recorded, wrapper, locationSearch>>

\* req.query.topic: absent, a string, or an array when the parameter repeats
QueryTopics ==
  {[kind |-> "undefined", value |-> ""], [kind |-> "string", value |-> ""],
   [kind |-> "string", value |-> "Echo"], [kind |-> "string", value |-> "Gravity"],
   [kind |-> "string", value |-> "100%"], [kind |-> "array", value |-> "Echo,Cat"]}
QueryTypes == {"<undefined>", "definition", "art", "image"}
\* response.text of the art call
ProxyArtTexts == {"{\"art\":\"(echo)\"}", "not json"}

\* !topic || typeof topic !== 'string'
invalidTopic(topic) == topic.kind # "string" \/ topic.value = ""

\* a handler that looks at the topic before the credential
earlyStatusTopicFirst(apiKey, topic) ==
  IF invalidTopic(topic) THEN 400 ELSE IF ~apiKey THEN 500 ELSE 0

\* the two early returns of the handler: the status answered, 0 for none
earlyStatus(apiKey, topic) ==
  IF ~apiKey THEN 500 ELSE IF invalidTopic(topic) THEN 400 ELSE 0

\* res.status(code).json(body): the status and the body leave together; when
\* the head of the response has left already, setting the header throws
resStatusJson(res, code, isError, value) ==
  IF res.headersSent
    THEN [res EXCEPT !.statusCode = code, !.st = "crashed"]
    ELSE [res EXCEPT !.statusCode = code, !.headersSent = TRUE, !.sentStatus = code,
                     !.json = [isError |-> isError, value |-> value],
                     !.ended = TRUE, !.st = "done"]

\* catch (error) { res.status(500).json({ error: errorMessage }); }
proxyCatch(res, errorMessage) ==
  resStatusJson([res EXCEPT !.providerFailed = TRUE], 500, TRUE, errorMessage)

InitProxy ==
  /\ currentTopic \in InitialTopics
  /\ content = ""
  /\ isLoading = TRUE
  /\ error = Null
  /\ asciiArt = Null
  /\ imageUrl = Null
  /\ isImageLoading = TRUE
  /\ generationTime = NoTime
  /\ searchHistory = <<>>
  /\ storage \in StoredValues
  /\ cache = [k \in {} |-> Null]
  /\ gens = <<>>
  /\ phase = "constructed"
  /\ effectPending = TRUE
  /\ transientLeft = 0
  /\ loadedHistory = <<>>
  /\ recorded = <<>>
  /\ wrapper = NoWrapper
  /\ locationSearch = relativeUrl(currentTopic)
  /\ \E apiKey \in BOOLEAN, type \in QueryTypes, topic \in QueryTopics :
       proxy = [NoProxy EXCEPT !.apiKey = apiKey, !.type = type, !.topic = topic]

\* the handler runs up to its first await or to its return
ProxyHandle ==
  /\ proxy.st = "idle"
  /\ proxy' =
       IF earlyStatus(proxy.apiKey, proxy.topic) = 500
         THEN resStatusJson(proxy, 500, TRUE, "API_KEY is not configured on the server.")
       ELSE IF earlyStatus(proxy.apiKey, proxy.topic) = 400
         THEN resStatusJson(proxy, 400, TRUE, "Missing or invalid \"topic\" query parameter.")
       ELSE IF proxy.type \in {"definition", "art"}
         THEN [proxy EXCEPT !.st = "awaiting", !.providerCalls = 1]
       ELSE resStatusJson(proxy, 400, TRUE,
                          "Invalid \"type\" query parameter. Use \"definition\" or \"art\".")
  /\ UNCHANGED clientVars

\* the provider answers the call: the stream is open, or the art text is
\* parsed and sent (JSON.parse throws on a malformed text)
ProxyProviderResponds ==
  /\ proxy.st = "awaiting"
  /\ IF proxy.type = "definition"
       THEN proxy' = [proxy EXCEPT !.st = "streaming"]
       ELSE \E text \in ProxyArtTexts :
              proxy' = IF JSONparse(text).ok
                         THEN resStatusJson(proxy, 200, FALSE, text)
                         ELSE proxyCatch(proxy, "Unexpected token")
  /\ UNCHANGED clientVars

\* the provider call fails
ProxyProviderFails ==
  /\ proxy.st = "awaiting"
  /\ \E e \in ProviderErrors : proxy' = proxyCatch(proxy, e)
  /\ UNCHANGED clientVars

\* res.write(chunk.text): the first write sends the head with the status set
ProxyStreamChunk ==
  /\ proxy.st = "streaming"
  /\ Len(proxy.written) < MaxChunks
  /\ proxy' = [proxy EXCEPT
       !.sentStatus = IF proxy.headersSent THEN @ ELSE proxy.statusCode,
       !.headersSent = TRUE,
       !.written = Append(@, ChunkText(Len(proxy.written) + 1))]
  /\ UNCHANGED clientVars

\* the stream ends: res.end()
ProxyStreamEnd ==
  /\ proxy.st = "streaming"
  /\ proxy' = [proxy EXCEPT
       !.sentStatus = IF proxy.headersSent THEN @ ELSE proxy.statusCode,
       !.headersSent = TRUE, !.ended = TRUE, !.st = "done"]
  /\ UNCHANGED clientVars

\* the stream throws while it is iterated
ProxyStreamFails ==
  /\ proxy.st = "streaming"
  /\ \E e \in ProviderErrors : proxy' = proxyCatch(proxy, e)
  /\ UNCHANGED clientVars

NextProxy ==
  \/ ProxyHandle
  \/ ProxyProviderResponds
  \/ ProxyProviderFails
  \/ ProxyStreamChunk
  \/ ProxyStreamEnd
  \/ ProxyStreamFails

SpecProxy == InitProxy /\ [][NextProxy]_vars

(***************************************************************************)
(* Teardown: the component may be unmounted at any time after its effects  *)
(* ran; the cleanup of the topic effect runs, and the tasks still pending  *)
(* resume afterwards.  No provider failure occurs.                         *)
(***************************************************************************)
\* React unmounts App: return () => { isCancelled = true; }
Unmount ==
  /\ phase = "mounted"
  /\ gens' = [g \in 1..Len(gens) |-> cleanup(gens[g])]
  /\ phase' = "unmounted"
  /\ effectPending' = FALSE
  /\ UNCHANGED <<currentTopic, observable, historyVars, cache, transientLeft,
                 wrapper, locationSearch, proxy>>

InitTeardown ==
  /\ currentTopic \in InitialTopics
  /\ content = ""
  /\ isLoading = TRUE
  /\ error = Null
  /\ asciiArt = Null
  /\ imageUrl = Null
  /\ isImageLoading = TRUE
  /\ generationTime = NoTime
  /\ searchHistory = <<>>
  /\ storage \in StoredValues
  /\ cache = [k \in {} |-> Null]
  /\ gens = <<>>
  /\ phase = "constructed"
  /\ effectPending = TRUE
  /\ transientLeft = 0
  /\ loadedHistory = <<>>
  /\ recorded = <<>>
  /\ wrapper = NoWrapper
  /\ locationSearch = relativeUrl(currentTopic)
  /\ proxy = NoProxy

NextTeardown ==
  \/ LoadHistoryEffect
  \/ TopicEffect
  \/ HandleRandom
  \/ Unmount
  \/ \E g \in 1..MaxGen : ArtResponse(g)
  \/ \E g \in 1..MaxGen : ArtCacheHit(g)
  \/ \E g \in 1..MaxGen : ImageResponse(g)
  \/ \E g \in 1..MaxGen : ImageCacheHit(g)
  \/ \E g \in 1..MaxGen : DefOpenResponse(g)
  \/ \E g \in 1..MaxGen : StreamChunk(g)
  \/ \E g \in 1..MaxGen : StreamEnd(g)
  \/ \E g \in 1..MaxGen : StreamError(g)

SpecTeardown == InitTeardown /\ [][NextTeardown]_vars

(***************************************************************************)
(* The fallback art for topics of several lengths: one generation per      *)
(* topic, opened at the address of that topic; the provider may refuse the *)
(* art.                                                                    *)
(***************************************************************************)
FallbackTopics ==
  {"Go", "gravity", "abcdefghijklmnopqrs", "abcdefghijklmnopqrst",
   "abcdefghijklmnopqrstu", "abcdefghijklmnopqrstuvwxyz"}

InitFallback ==
  /\ currentTopic \in FallbackTopics
  /\ content = ""
  /\ isLoading = TRUE
  /\ error = Null
  /\ asciiArt = Null
  /\ imageUrl = Null
  /\ isImageLoading = TRUE
  /\ generationTime = NoTime
  /\ searchHistory = <<>>
  /\ storage = Null
  /\ cache = [k \in {} |-> Null]
  /\ gens = <<>>
  /\ phase = "constructed"
  /\ effectPending = TRUE
  /\ transientLeft = 0
  /\ loadedHistory = <<>>
  /\ recorded = <<>>
  /\ wrapper = NoWrapper
  /\ locationSearch = relativeUrl(currentTopic)
  /\ proxy = NoProxy

SpecFallback == InitFallback /\ [][NextOutage]_vars

\* ---------------------------------------------------------------------
\* The two cached generators called directly, with any topic, aspect ratio
\* and style: every call runs from its lookup to its return.

ArtKeyTopics == {"a", "A", "a_b"}
ArtKeyStyles == {"Standard", "b_Standard"}
ImageKeyTopics == {"a", "a_16:9"}
ImageKeyAspects == {"16:9", "1:1"}
ImageKeyStyles == {"Neon", "1:1_Neon"}

\* the art the provider draws for a prompt
artPrompt(topic, style) ==
  "Create a " \o style \o " ASCII art for: \"" \o topic \o "\"."
artAnswer(topic, style) == "art<" \o artPrompt(topic, style) \o ">"
\* the image the provider paints for a prompt and an aspect ratio
imagePrompt(topic, style) ==
  "A high-quality, " \o style \o " representation of: \"" \o topic \o "\"."
imageAnswer(topic, aspectRatio, style) ==
  "img<" \o aspectRatio \o "|" \o imagePrompt(topic, style) \o ">"

\* no generator has been called yet
NoCall ==
  [fn |-> "none", topic |-> "", aspectRatio |-> "", style |-> "",
   cached |-> FALSE, returned |-> Null]

InitKeys ==
  /\ currentTopic \in InitialTopics
  /\ content = ""
  /\ isLoading = TRUE
  /\ error = Null
  /\ asciiArt = Null
  /\ imageUrl = Null
  /\ isImageLoading = TRUE
  /\ generationTime = NoTime
  /\ searchHistory = <<>>
  /\ storage = Null
  /\ cache = [k \in {} |-> Null]
  /\ gens = <<>>
  /\ phase = "constructed"
  /\ effectPending = TRUE
  /\ transientLeft = 0
  /\ loadedHistory = <<>>
  /\ recorded = <<>>
  /\ wrapper = NoCall
  /\ locationSearch = relativeUrl(currentTopic)
  /\ proxy = NoProxy

keysUnchanged ==
  UNCHANGED <<currentTopic, content, isLoading, error, asciiArt, imageUrl,
              isImageLoading, generationTime, searchHistory, storage, gens,
              phase, effectPending, transientLeft, loadedHistory, recorded,
              locationSearch, proxy>>

\* generateAsciiArt(topic, style); ok: the provider call succeeded
GenerateAsciiArt(topic, style, ok) ==
  LET cacheKey == asciiCacheKey(topic, style)
      cached == getCache(cache, cacheKey)
      call == [NoCall EXCEPT !.fn = "generateAsciiArt", !.topic = topic,
                             !.style = style]
  IN /\ IF cached # Null
          THEN /\ wrapper' = [call EXCEPT !.cached = TRUE, !.returned = cached]
               /\ UNCHANGED cache
          ELSE IF ok
            THEN /\ cache' = setCache(cache, cacheKey, artAnswer(topic, style))
                 /\ wrapper' = [call EXCEPT !.returned = artAnswer(topic, style)]
            ELSE /\ wrapper' = [call EXCEPT !.returned = "Visual translation failed."]
                 /\ UNCHANGED cache
     /\ keysUnchanged

\* generateImage(topic, aspectRatio, style)
GenerateImage(topic, aspectRatio, style, ok) ==
  LET cacheKey == imageCacheKey(topic, aspectRatio, style)
      cached == getCache(cache, cacheKey)
      call == [NoCall EXCEPT !.fn = "generateImage", !.topic = topic,
                             !.aspectRatio = aspectRatio, !.style = style]
  IN /\ IF cached # Null
          THEN /\ wrapper' = [call EXCEPT !.cached = TRUE, !.returned = cached]
               /\ UNCHANGED cache
          ELSE IF ok
            THEN /\ cache' = setCache(cache, cacheKey,
                                      imageAnswer(topic, aspectRatio, style))
                 /\ wrapper' = [call EXCEPT
                                  !.returned = imageAnswer(topic, aspectRatio, style)]
            ELSE /\ wrapper' = call
                 /\ UNCHANGED cache
     /\ keysUnchanged

NextKeys ==
  \/ \E topic \in ArtKeyTopics, style \in ArtKeyStyles, ok \in BOOLEAN :
       GenerateAsciiArt(topic, style, ok)
  \/ \E topic \in ImageKeyTopics, aspectRatio \in ImageKeyAspects,
        style \in ImageKeyStyles, ok \in BOOLEAN :
       GenerateImage(topic, aspectRatio, style, ok)

SpecKeys == InitKeys /\ [][NextKeys]_vars

\* ---------------------------------------------------------------------
\* The search bar with voice input inside the application: the form, the
\* microphone button and the speech recognition it starts.  disabled is
\* the application's isLoading.

\* text typed into the search box
TypedQueries == {" echo ", " ", "e_o"}
\* what the speech recognition hears
Transcripts == {"hypertext", " echo ", " "}

QueryLetters ==
  {"a", "b", "c", "d", "e", "f", "g", "h", "i", "j", "k", "l", "m", "n",
   "o", "p", "q", "r", "s", "t", "u", "v", "w", "x", "y", "z"}
QueryDigits == {"0", "1", "2", "3", "4", "5", "6", "7", "8", "9"}

\* /^[a-zA-Z0-9\s-]*$/.test(newQuery)
isValid(newQuery) ==
  \A i \in 1..Len(newQuery) :
    LowerChar(CharAt(newQuery, i)) \in QueryLetters \cup QueryDigits \cup {" ", "-"}

White == "#ffffff"
Blue == "#4D90FE"
Red == "#ff4444"

\* the search bar after its first render: started is the topic in the
\* onSearch closure of the recognition that is listening (Null: none is),
\* onSearch holds the last invocation of the callback
NoSearchBar ==
  [query |-> "", inputColor |-> White, isListening |-> FALSE,
   started |-> Null, onSearch |-> <<>>]

InitSearchBar ==
  /\ currentTopic \in InitialTopics
  /\ content = ""
  /\ isLoading = TRUE
  /\ error = Null
  /\ asciiArt = Null
  /\ imageUrl = Null
  /\ isImageLoading = TRUE
  /\ generationTime = NoTime
  /\ searchHistory = <<>>
  /\ storage = Null
  /\ cache = [k \in {} |-> Null]
  /\ gens = <<>>
  /\ phase = "constructed"
  /\ effectPending = TRUE
  /\ transientLeft = 0
  /\ loadedHistory = <<>>
  /\ recorded = <<>>
  /\ wrapper = NoSearchBar
  /\ locationSearch = relativeUrl(currentTopic)
  /\ proxy = NoProxy

searchBarUnchanged ==
  UNCHANGED <<observable, historyVars, cache, gens, phase, locationSearch,
              proxy, transientLeft>>

\* the search bar handles events once the application is rendered
Rendered == phase = "mounted" /\ ~effectPending

\* App.handleSearch as created when the current topic was closureTopic
onSearch(closureTopic, topic) ==
  LET newTopic == trim(topic) IN
  IF newTopic # "" /\ toLowerCase(newTopic) # toLowerCase(closureTopic)
     /\ newTopic # currentTopic
    THEN currentTopic' = newTopic /\ effectPending' = TRUE
    ELSE UNCHANGED <<currentTopic, effectPending>>

\* the invocation onSearch(query), as the search bar made it
Invoked(query) == <<[query |-> query, disabled |-> isLoading]>>

\* handleInputChange (the input is disabled while loading)
HandleInputChange ==
  /\ Rendered
  /\ ~isLoading
  /\ \E newQuery \in TypedQueries :
       wrapper' = [wrapper EXCEPT
                     !.query = newQuery,
                     !.inputColor = IF newQuery = "" THEN White
                                    ELSE IF isValid(newQuery) THEN Blue ELSE Red]
  /\ UNCHANGED <<currentTopic, effectPending>>
  /\ searchBarUnchanged

\* if (transcript.trim()) of recognition.onresult
voiceSearches(transcript) == trim(transcript) # ""

\* if (query.trim() && !disabled && inputColor !== '#ff4444') of handleSubmit
submitSearches(query) ==
  trim(query) # "" /\ ~isLoading /\ wrapper.inputColor # Red

\* handleSubmit of the form
SearchBarSubmit ==
  /\ Rendered
  /\ Len(gens) < MaxGen
  /\ IF submitSearches(wrapper.query)
       THEN /\ onSearch(currentTopic, trim(wrapper.query))
            /\ wrapper' = [wrapper EXCEPT !.query = "", !.inputColor = White,
                                          !.onSearch = Invoked(trim(wrapper.query))]
       ELSE UNCHANGED <<currentTopic, effectPending, wrapper>>
  /\ searchBarUnchanged

\* toggleVoiceInput (the microphone button is disabled while loading): stop
\* reaches the recognition in the ref, which the effect replaces whenever
\* onSearch changes
ToggleVoiceInput ==
  /\ Rendered
  /\ ~isLoading
  /\ IF wrapper.isListening
       THEN wrapper' = IF wrapper.started = currentTopic
                         THEN [wrapper EXCEPT !.started = Null, !.isListening = FALSE]
                         ELSE wrapper
       ELSE wrapper' = [wrapper EXCEPT !.isListening = TRUE, !.started = currentTopic]
  /\ UNCHANGED <<currentTopic, effectPending>>
  /\ searchBarUnchanged

\* recognition.onresult of the recognition that is listening
VoiceResult ==
  /\ Rendered
  /\ wrapper.started # Null
  /\ \E transcript \in Transcripts :
       IF voiceSearches(transcript)
         THEN /\ onSearch(wrapper.started, trim(transcript))
              /\ wrapper' = [wrapper EXCEPT !.query = "", !.inputColor = Blue,
                                            !.isListening = FALSE, !.started = Null,
                                            !.onSearch = Invoked(trim(transcript))]
         ELSE /\ UNCHANGED <<currentTopic, effectPending>>
              /\ wrapper' = [wrapper EXCEPT !.query = transcript, !.inputColor = Blue,
                                            !.isListening = FALSE, !.started = Null]
  /\ searchBarUnchanged

\* recognition.onerror / recognition.onend
VoiceEnd ==
  /\ Rendered
  /\ wrapper.started # Null
  /\ wrapper' = [wrapper EXCEPT !.isListening = FALSE, !.started = Null]
  /\ UNCHANGED <<currentTopic, effectPending>>
  /\ searchBarUnchanged

NextSearchBar ==
  \/ LoadHistoryEffect
  \/ TopicEffect
  \/ HandleRandom
  \/ \E g \in 1..MaxGen : DefOpenResponse(g)
  \/ \E g \in 1..MaxGen : StreamEnd(g)
  \/ HandleInputChange
  \/ SearchBarSubmit
  \/ ToggleVoiceInput
  \/ VoiceResult
  \/ VoiceEnd

SpecSearchBar == InitSearchBar /\ [][NextSearchBar]_vars

(***************************************************************************)
(* Properties.                                                             *)
(***************************************************************************)
\* generation g is the one whose results may still be applied
IsCurrent(g) == g \in 1..Len(gens) /\ ~gens[g].isCancelled

RECURSIVE Concat(_)
\* the concatenation of a sequence of strings
Concat(chunks) ==
  IF chunks = <<>> THEN "" ELSE Head(chunks) \o Concat(Tail(chunks))

IsPrefix(a, b) == Len(a) <= Len(b) /\ SubSeq(b, 1, Len(a)) = a

PairwiseDistinct(topics) ==
  \A i, j \in 1..Len(topics) : i # j => ~SameTopic(topics[i], topics[j])

Reverse(seq) == [i \in 1..Len(seq) |-> seq[Len(seq) + 1 - i]]

\* C1: once a generation is superseded, no step of one of its tasks (chunk,
\* art or fallback, image, image-loading reset, error, elapsed time, loading
\* reset; after a retry or not) changes the observable state
C1_EpochExclusivity ==
  [][\A g \in 1..Len(gens) :
       (gens[g].isCancelled /\ gens'[g] # gens[g]) => UNCHANGED observable]_vars

\* C1: all three tasks of a superseded generation for another topic came back
\* late and were dropped, the art one out of a retry
C1_Witness ==
  \E g \in 1..Len(gens) :
    /\ gens[g].isCancelled
    /\ ~SameTopic(gens[g].topic, currentTopic)
    /\ gens[g].art.st = "dropped" /\ gens[g].art.attempt >= 1
    /\ gens[g].img.st = "dropped"
    /\ gens[g].def.st = "dropped"

\* C2: a submission never makes a topic active that equals the active one
\* case-insensitively (such a submission schedules no generation)
C2_SameTopicIsNoOp ==
  [][(~effectPending /\ effectPending') => ~SameTopic(currentTopic', currentTopic)]_vars

\* C3: the step that starts a generation leaves content empty, art, image,
\* error and elapsed time null, both loading flags true and the topic first
\* in the history
C3_StartResets ==
  [][Len(gens') > Len(gens) =>
       /\ gens'[Len(gens')].topic = currentTopic'
       /\ content' = "" /\ asciiArt' = Null /\ imageUrl' = Null
       /\ error' = Null /\ generationTime' = NoTime
       /\ isLoading' /\ isImageLoading'
       /\ searchHistory' # <<>> /\ Head(searchHistory') = currentTopic']_vars

\* C3: a second generation has just started, after the definition and the
\* art of the first one had been applied
C3_Witness ==
  /\ Len(gens) = 2
  /\ gens[1].def.st = "over" /\ gens[1].art.st = "over"
  /\ gens[2].def = [st |-> "opening", attempt |-> 0]
  /\ gens[2].art = Call(0) /\ gens[2].img = Call(0)
  /\ content = "" /\ asciiArt = Null /\ isLoading
  /\ Head(searchHistory) = currentTopic

\* C4: when the definition of the current generation has failed, the content
\* is empty, the error is set, loading is false and the time is recorded
C4_FailureClearsContent ==
  \A g \in 1..Len(gens) :
    (IsCurrent(g) /\ gens[g].def.st = "failed") =>
      /\ content = ""
      /\ error # Null
      /\ ~isLoading
      /\ generationTime # NoTime

\* C5: while the stream of the current generation is open, the content is the
\* concatenation of the chunks sent so far, in order, and it only grows by
\* what is appended
C5_ChunksInOrder ==
  /\ [](\A g \in 1..Len(gens) :
          (IsCurrent(g) /\ gens[g].def.st = "streaming") =>
            content = Concat(gens[g].sent))
  /\ [][\A g \in 1..Len(gens) :
          (IsCurrent(g) /\ ~gens'[g].isCancelled
           /\ gens[g].def.st = "streaming" /\ gens'[g].def.st = "streaming") =>
            /\ IsPrefix(gens[g].sent, gens'[g].sent)
            /\ IsPrefix(content, content')]_vars

\* C5: two chunks have been applied to the current generation
C5_Witness ==
  \E g \in 1..Len(gens) :
    /\ IsCurrent(g) /\ gens[g].def.st = "streaming"
    /\ Len(gens[g].sent) = 2
    /\ content = gens[g].sent[1] \o gens[g].sent[2]
    /\ gens[g].sent[1] # gens[g].sent[2]

\* C6: when the stream of the current generation has ended without failure,
\* loading is false, the error is null, the time of this generation is
\* recorded and the content is the concatenation of all its chunks
C6_StreamEnd ==
  \A g \in 1..Len(gens) :
    (IsCurrent(g) /\ gens[g].def.st = "ended") =>
      /\ ~isLoading
      /\ error = Null
      /\ generationTime # NoTime /\ generationTime = <<g>>
      /\ content = Concat(gens[g].sent)

\* C6: a stream of the current generation ended after it had sent chunks
C6_Witness ==
  \E g \in 1..Len(gens) :
    /\ IsCurrent(g) /\ gens[g].def.st = "ended"
    /\ gens[g].sent # <<>> /\ content # ""
    /\ ~isLoading

\* C7: recording a topic removes its case-insensitive matches, puts it first
\* in its new spelling, keeps the others in order, truncates to HISTORY_CAP
\* and stores the same list; Cat, Dog, Cat from an empty history gives
\* [Cat, Dog]
C7_Record ==
  /\ []((loadedHistory = <<>> /\ recorded = <<"Cat", "Dog", "Cat">>) =>
          searchHistory = <<"Cat", "Dog">>)
  /\ [][recorded' # recorded =>
          LET topic == currentTopic
              others == SelectSeq(searchHistory, LAMBDA item : ~SameTopic(item, topic))
              kept == IF Len(others) < HISTORY_CAP THEN Len(others) ELSE HISTORY_CAP - 1
              expected == <<topic>> \o SubSeq(others, 1, kept)
          IN /\ recorded' = Append(recorded, topic)
             /\ searchHistory' = expected
             /\ JSONparse(storage') = [ok |-> TRUE, isArray |-> TRUE, items |-> expected]]_vars

\* C7: Cat, Dog, Cat have been recorded from an empty history
C7_Witness ==
  /\ loadedHistory = <<>>
  /\ recorded = <<"Cat", "Dog", "Cat">>
  /\ searchHistory = <<"Cat", "Dog">>
  /\ storage = "[\"Cat\",\"Dog\"]"

\* C8: from an empty history, HISTORY_CAP + 1 pairwise distinct topics leave
\* the last HISTORY_CAP of them, most recent first
C8_Eviction ==
  (/\ loadedHistory = <<>>
   /\ Len(recorded) = HISTORY_CAP + 1
   /\ PairwiseDistinct(recorded)) =>
    /\ Len(searchHistory) = HISTORY_CAP
    /\ searchHistory = Reverse(SubSeq(recorded, 2, HISTORY_CAP + 1))

\* C8: HISTORY_CAP + 1 distinct topics were recorded and the first is gone
C8_Witness ==
  /\ loadedHistory = <<>>
  /\ Len(recorded) = HISTORY_CAP + 1
  /\ PairwiseDistinct(recorded)
  /\ Len(searchHistory) = HISTORY_CAP
  /\ \A i \in 1..Len(searchHistory) : searchHistory[i] # recorded[1]

\* C9: once the application is mounted, the history has at most HISTORY_CAP
\* entries and no two of them are equal case-insensitively
C9_HistoryInvariant ==
  phase = "mounted" =>
    /\ Len(searchHistory) <= HISTORY_CAP
    /\ PairwiseDistinct(searchHistory)

\* C10: after the load, the value left under the history key is a JSON array,
\* which the history holds, or there is none and the history is empty
C10_LoadClearsCorrupt ==
  phase = "loaded" =>
    IF storage = Null \/ storage = ""
      THEN searchHistory = <<>>
      ELSE /\ JSONparse(storage).isArray
           /\ searchHistory = JSONparse(storage).items

\* C11: one call of the wrapper invokes the operation at most maxRetries + 1
\* times, a wait is always followed by an allowed attempt, and when every
\* attempt failed with a transient error the call fails with the last error
\* after exactly maxRetries + 1 invocations
C11_AttemptsBounded ==
  /\ wrapper.calls <= wrapper.maxRetries + 1
  /\ wrapper.st = "waiting" => wrapper.attempt < wrapper.maxRetries
  /\ (/\ wrapper.st = "thrown"
      /\ \A i \in 1..Len(wrapper.failures) :
           isRateLimit(wrapper.failures[i]) \/ isOverloaded(wrapper.failures[i])) =>
       /\ wrapper.calls = wrapper.maxRetries + 1
       /\ Len(wrapper.failures) = wrapper.calls
       /\ wrapper.result = wrapper.failures[Len(wrapper.failures)]

\* C11: with maxRetries = 3 the operation failed four times with transient
\* errors, of both classes, and the call has failed
C11_Witness ==
  /\ wrapper.st = "thrown"
  /\ wrapper.maxRetries = 3 /\ wrapper.calls = 4
  /\ \A i \in 1..Len(wrapper.failures) :
       isRateLimit(wrapper.failures[i]) \/ isOverloaded(wrapper.failures[i])
  /\ \E i \in 1..Len(wrapper.failures) : isOverloaded(wrapper.failures[i])
  /\ \E i \in 1..Len(wrapper.failures) : isRateLimit(wrapper.failures[i])

\* C12: an attempt that fails with an error that is neither rate-limited nor
\* overloaded ends the call at once with that error: no wait is started, and
\* the operation is not invoked again
C12_NoRetryOfOtherErrors ==
  [][/\ (/\ Len(wrapper'.failures) > Len(wrapper.failures)
         /\ ~isRateLimit(wrapper'.failures[Len(wrapper'.failures)])
         /\ ~isOverloaded(wrapper'.failures[Len(wrapper'.failures)])) =>
          /\ wrapper'.st = "thrown"
          /\ wrapper'.result = wrapper'.failures[Len(wrapper'.failures)]
          /\ wrapper'.delays = wrapper.delays
          /\ wrapper'.calls = wrapper.calls
     /\ wrapper.st = "thrown" => wrapper' = wrapper]_vars

\* C12: the third attempt was blocked for safety after two transient
\* failures, and the call failed with that error after three invocations
C12_Witness ==
  /\ wrapper.st = "thrown"
  /\ wrapper.maxRetries = 3
  /\ Len(wrapper.failures) = 3 /\ wrapper.calls = 3 /\ Len(wrapper.delays) = 2
  /\ wrapper.result = "blocked: SAFETY"

\* C14: the step in which the art call of the current generation fails for
\* good sets the art to a box around the topic (not null), and leaves the
\* error, the content, the loading flag and the definition task as they are
C14_ArtFallback ==
  [][\A g \in 1..Len(gens) :
       (IsCurrent(g) /\ gens[g].art.st = "calling" /\ gens'[g].art.st = "fallback") =>
         /\ asciiArt' # Null
         /\ Includes(asciiArt', "| " \o gens[g].topic \o " |")
         /\ SubSeq(asciiArt', 1, 1) = "+"
         /\ error' = error /\ content' = content /\ isLoading' = isLoading
         /\ gens'[g].def = gens[g].def]_vars

\* C14: the art call alone made all its retries and the fallback is shown,
\* while no error is set and the definition is still being opened
C14_Witness ==
  \E g \in 1..Len(gens) :
    /\ IsCurrent(g) /\ gens[g].art.st = "fallback"
    /\ gens[g].img = Call(0) /\ gens[g].def = [st |-> "opening", attempt |-> 0]
    /\ transientLeft = OutageRetries - MAX_RETRIES
    /\ asciiArt = "+---------+\n| gravity |\n+---------+"
    /\ error = Null

\* C15: once the image call of the current generation has settled the
\* image-loading flag is false, the image is null unless the provider sent
\* one, and no step of the image task touches the error
C15_ImageSettles ==
  /\ [](\A g \in 1..Len(gens) :
          (IsCurrent(g) /\ gens[g].img.st \in {"done", "absent"}) =>
            /\ ~isImageLoading
            /\ gens[g].img.st = "absent" => imageUrl = Null
            /\ gens[g].img.st = "done" => imageUrl # Null)
  /\ [][\A g \in 1..Len(gens) : gens'[g].img # gens[g].img => error' = error]_vars

\* C15: the image call alone made all its retries: no image, the flag is
\* false and no error is set
C15_Witness ==
  \E g \in 1..Len(gens) :
    /\ IsCurrent(g) /\ gens[g].img.st = "absent"
    /\ gens[g].art = Call(0) /\ gens[g].def = [st |-> "opening", attempt |-> 0]
    /\ transientLeft = OutageRetries - MAX_RETRIES
    /\ imageUrl = Null /\ ~isImageLoading /\ error = Null

\* C18: when the call that opens the definition stream fails at its last
\* attempt with a rate-limit or overload error, the error shown is the busy
\* message; the same in the art or image task sets no error and gives the
\* fallback art or no image
C18_BusyMessage ==
  [][\A g \in 1..Len(gens) :
       /\ (/\ IsCurrent(g)
           /\ gens[g].def = [st |-> "opening", attempt |-> MAX_RETRIES]
           /\ gens'[g].def.st = "failed"
           /\ isRateLimit(gens'[g].def.cause) \/ isOverloaded(gens'[g].def.cause)) =>
            error' = "The neural network is extremely busy right now. We are retrying, but the traffic is high. Please try again in a minute."
       /\ (/\ IsCurrent(g)
           /\ gens[g].art = Call(MAX_RETRIES)
           /\ gens'[g].art.st # "calling") =>
            (error' = error /\ asciiArt' # Null)
       /\ (/\ IsCurrent(g)
           /\ gens[g].img = Call(MAX_RETRIES)
           /\ gens'[g].img.st = "absent") =>
            (error' = error /\ imageUrl' = Null)]_vars


\* C13: an art call for a (topic, style) whose art an earlier call stored is
\* answered from the cache: the run that starts with the key in the cache gets
\* the stored art as a hit, and a hit is delivered as it is, the provider not
\* invoked (the task is never calling) and the cache left as it was
C13_ArtCacheHit ==
  [][ /\ Len(gens') > Len(gens) /\ asciiCacheKey(currentTopic, "Standard") \in DOMAIN cache
        => gens'[Len(gens')].art =
             [st |-> "hit", attempt |-> 0,
              val |-> parseArt(cache[asciiCacheKey(currentTopic, "Standard")])]
      /\ \A g \in 1..Len(gens) :
           gens[g].art.st = "hit" /\ gens'[g].art # gens[g].art
             => /\ gens'[g].art.st \in {"done", "dropped", "over"}
                /\ cache' = cache
                /\ ~gens[g].isCancelled => asciiArt' = gens[g].art.val ]_vars

\* the third run is for the very topic of the first, whose art the first run
\* stored, and shows that art from the hit
C13_Witness ==
  /\ Len(gens) = 3
  /\ gens[3].topic = gens[1].topic
  /\ gens[3].art.st = "done"
  /\ gens[3].img.st = "calling"
  /\ asciiCacheKey(gens[3].topic, "Standard") \in DOMAIN cache
  /\ imageCacheKey(gens[3].topic, "16:9", "Cinematic") \notin DOMAIN cache
  /\ asciiArt = parseArt(cache[asciiCacheKey(gens[3].topic, "Standard")])

\* C17: every run of the topic effect opens the definition stream anew,
\* whatever the cache holds: no definition task is a cache hit, and the run
\* starts with an empty content and the opening call at attempt 0
C17_DefinitionNeverCached ==
  /\ [](\A g \in 1..Len(gens) : gens[g].def.st # "hit")
  /\ [][ Len(gens') > Len(gens)
           => /\ gens'[Len(gens')].def = [st |-> "opening", attempt |-> 0]
              /\ gens'[Len(gens')].sent = <<>>
              /\ content' = "" ]_vars

\* a re-visit whose art and image both come from the cache, its stream opened
\* by the provider
C17_Witness ==
  /\ Len(gens) = 3
  /\ gens[3].topic = gens[1].topic
  /\ gens[3].art.st = "hit"
  /\ gens[3].img.st = "hit"
  /\ gens[3].def.st = "streaming"


\* C16: a stream that was opened is never opened again: from streaming the
\* definition task goes on streaming, ends or fails, never back to the opening
\* call; a failure consumes no retry and, in the current generation, becomes
\* the error shown for it; each step appends at most the one next chunk, and
\* the accumulated content is the chunks sent, each once
C16_StreamNeverReplayed ==
  /\ [](\A g \in 1..Len(gens) :
          ~gens[g].isCancelled
            => /\ gens[g].accumulatedContent = Concat(gens[g].sent)
               /\ PairwiseDistinct(gens[g].sent))
  /\ [][ \A g \in 1..Len(gens) :
           gens[g].def.st = "streaming"
             => /\ gens'[g].def.st \in {"streaming", "ended", "failed", "dropped"}
                /\ \/ gens'[g].sent = gens[g].sent
                   \/ gens'[g].sent = <<>>
                   \/ gens'[g].sent =
                        Append(gens[g].sent, ChunkText(Len(gens[g].sent) + 1))
                /\ gens'[g].def.st = "failed"
                     => /\ transientLeft' = transientLeft
                        /\ ~gens[g].isCancelled
                             => /\ error' = getApiErrorMessage(gens'[g].def.cause,
                                                               gens[g].topic)
                                /\ content' = Concat(gens[g].sent)
                                /\ isLoading' = FALSE ]_vars

\* the stream failed with a transient error after its first chunk: no retry
\* was made, the chunk is still shown and the error is set
C16_Witness ==
  /\ Len(gens) = 1
  /\ gens[1].def.st = "failed"
  /\ isTransient(gens[1].def.cause)
  /\ Len(gens[1].sent) >= 1
  /\ content = Concat(gens[1].sent)
  /\ error # Null
  /\ transientLeft = OutageRetries


\* C19: in every state where the application is mounted and idle between
\* renders, whatever the tasks of the current generation are doing, the
\* submission of a topic that differs from the current one is accepted: the
\* search form takes it and schedules a new run of the topic effect
C19_SubmissionAlwaysAccepted ==
  CanSubmit
    => \A query \in SearchInputs :
         acceptsTopic(trim(query)) => ENABLED handleSubmit(query)


\* C20: no task of a generation ends in a rejection that nothing handles:
\* whatever the provider answers, the art task ends with the art or the
\* fallback, the image task with the image or none, and the definition task
\* ended or failed with its error caught by fetchContentAndArt
C20_NoUnhandledRejection ==
  \A g \in 1..Len(gens) :
    /\ gens[g].art.st \in {"calling", "hit", "done", "fallback", "dropped", "over"}
    /\ gens[g].img.st \in {"calling", "hit", "done", "absent", "dropped", "over"}
    /\ gens[g].def.st \in {"opening", "streaming", "ended", "failed", "dropped", "over"}
    /\ gens[g].def.st = "failed" /\ ~gens[g].isCancelled => error # Null

\* the three tasks of one generation have all failed, the art and the image
\* after their retries were used up
C20_Witness ==
  /\ Len(gens) = 1
  /\ gens[1].art.st = "fallback"
  /\ gens[1].img.st = "absent"
  /\ gens[1].def.st = "failed"
  /\ transientLeft = OutageRetries - 2 * MAX_RETRIES
  /\ imageUrl = Null
  /\ error # Null


\* C21: when callWithRetry gives up after retries, what it propagates is the
\* last error observed, and it is marked so that it differs from everything
\* the wrapper propagates without a retry
C21_ExhaustionMarked ==
  /\ wrapper.st = "thrown"
  /\ wrapper.attempt >= 1
  /\ wrapper.attempt = wrapper.maxRetries
  /\ isTransient(wrapper.failures[Len(wrapper.failures)])
  => /\ wrapper.failures[Len(wrapper.failures)] \in ProviderErrors
     /\ wrapper.result \notin {throwError(e) : e \in ProviderErrors}


\* C22: a failure of durable storage never leaves the operation that touched
\* storage: the history load effect and updateHistory complete, the history
\* in memory is updated and the generation for the topic starts
C22_StorageFailureSwallowed ==
  /\ phase # "crashed"
  /\ phase = "mounted" => Len(gens) >= 1 /\ searchHistory # <<>>


\* C23: once a generation has started the query string denotes the current
\* topic, and the topic read from the query string on load is the topic that
\* was written into it: a reload of the page keeps the topic
C23_UrlRoundTrip ==
  /\ [](phase = "mounted" /\ ~effectPending
          => locationSearch = relativeUrl(currentTopic))
  /\ [][ phase = "mounted" /\ phase' = "constructed"
           => currentTopic' = currentTopic ]_vars


\* C24: a request whose provider call failed, at whatever point, is answered
\* with status 500 and a JSON body that holds the error
C24_ProviderFailureIs500 ==
  proxy.providerFailed
    => /\ proxy.st = "done"
       /\ proxy.sentStatus = 500
       /\ proxy.json.isError

\* C25 as stated: every request whose topic is missing or no single string is
\* answered with 400 and an error body, and every request that finds no
\* credential with 500
C25_TopicIs400KeyIs500 ==
  proxy.st # "idle"
    => /\ invalidTopic(proxy.topic)
            => proxy.sentStatus = 400 /\ proxy.json.isError
       /\ ~proxy.apiKey
            => proxy.sentStatus = 500 /\ proxy.json.isError

\* C25 amended: a request that finds no credential is answered with 500
\* whatever its topic; with the credential set, a request whose topic is
\* missing or no single string is answered with 400; either answer is the one
\* response of the request, a JSON error body sent without a provider call
C25_KeyFirstThenTopic ==
  proxy.st # "idle" /\ (~proxy.apiKey \/ invalidTopic(proxy.topic))
    => /\ proxy.st = "done"
       /\ proxy.ended
       /\ proxy.json.isError
       /\ proxy.written = <<>>
       /\ proxy.providerCalls = 0
       /\ proxy.sentStatus = IF ~proxy.apiKey THEN 500 ELSE 400

\* a request with neither credential nor topic was answered with 500
C25_Witness ==
  /\ proxy.st = "done"
  /\ ~proxy.apiKey
  /\ proxy.topic.kind = "array"
  /\ proxy.sentStatus = 500
  /\ proxy.json.isError


\* C26: at most one started generation has its cancellation flag unset, and
\* it is the latest one; the step that starts a generation and the step that
\* tears the component down leave every earlier generation cancelled, so that
\* each later callback of those finds the flag set
C26_AtMostOneCurrent ==
  /\ [](/\ Cardinality({g \in 1..Len(gens) : ~gens[g].isCancelled}) <= 1
        /\ \A g \in 1..Len(gens) : g < Len(gens) => gens[g].isCancelled
        /\ phase = "unmounted" => \A g \in 1..Len(gens) : gens[g].isCancelled)
  /\ [][ /\ Len(gens') > Len(gens)
           => \A g \in 1..Len(gens) : gens'[g].isCancelled
         /\ \A g \in 1..Len(gens) : gens[g].isCancelled => gens'[g].isCancelled ]_vars

\* the component was torn down while the second generation was streaming and
\* the first still had its art call pending
C26_Witness ==
  /\ phase = "unmounted"
  /\ Len(gens) = 2
  /\ gens[1].isCancelled /\ gens[2].isCancelled
  /\ gens[1].art.st = "calling"
  /\ gens[2].def.st = "streaming"


\* C27: a task of a generation that is no longer current writes nothing: the
\* step in which one of its tasks resumes leaves the content, the art, the
\* image, the error, the loading flags, the elapsed time and the response
\* cache as they were
C27_StaleTasksWriteNothing ==
  [][ \A g \in 1..Len(gens) :
        /\ gens[g].isCancelled
        /\ Len(gens') = Len(gens)
        /\ gens'[g] # gens[g]
        => /\ content' = content
           /\ asciiArt' = asciiArt
           /\ imageUrl' = imageUrl
           /\ error' = error
           /\ isLoading' = isLoading
           /\ isImageLoading' = isImageLoading
           /\ generationTime' = generationTime
           /\ cache' = cache ]_vars


\* C28: the three tasks of a generation do not wait for one another: the run
\* of the topic effect puts all three in flight, whichever of them is pending
\* can be the next to complete whatever the other two are doing, and the
\* completion of one publishes its own result and leaves the others' alone
C28_TasksIndependent ==
  /\ [](\A g \in 1..Len(gens) :
          ~gens[g].isCancelled
            => /\ gens[g].art.st = "calling" => ENABLED ArtResponse(g)
               /\ gens[g].img.st = "calling" => ENABLED ImageResponse(g)
               /\ gens[g].def.st = "opening" => ENABLED DefOpenResponse(g)
               /\ gens[g].def.st = "streaming" => ENABLED StreamEnd(g))
  /\ [][ Len(gens') > Len(gens)
           => /\ gens'[Len(gens')].art.st \in {"calling", "hit"}
              /\ gens'[Len(gens')].img.st \in {"calling", "hit"}
              /\ gens'[Len(gens')].def.st = "opening" ]_vars
  /\ [][ \A g \in 1..Len(gens) :
           ~gens[g].isCancelled /\ Len(gens') = Len(gens)
             => /\ gens[g].art.st = "calling" /\ gens'[g].art.st = "done"
                  => /\ asciiArt' # Null
                     /\ isLoading' = isLoading /\ isImageLoading' = isImageLoading
                     /\ gens'[g].def = gens[g].def /\ gens'[g].img = gens[g].img
                /\ gens[g].img.st = "calling" /\ gens'[g].img.st = "done"
                  => /\ imageUrl' # Null /\ isImageLoading' = FALSE
                     /\ isLoading' = isLoading
                     /\ gens'[g].def = gens[g].def /\ gens'[g].art = gens[g].art
                /\ gens[g].def.st = "streaming" /\ gens'[g].def.st = "ended"
                  => /\ isLoading' = FALSE /\ generationTime' # NoTime
                     /\ asciiArt' = asciiArt /\ imageUrl' = imageUrl
                     /\ isImageLoading' = isImageLoading
                     /\ gens'[g].art = gens[g].art /\ gens'[g].img = gens[g].img ]_vars

\* the definition has completed (loading over, time recorded) while the art
\* and the image calls are both still pending
C28_Witness ==
  /\ Len(gens) = 1
  /\ gens[1].def.st = "ended"
  /\ ~isLoading
  /\ generationTime # NoTime
  /\ gens[1].art.st = "calling"
  /\ gens[1].img.st = "calling"
  /\ asciiArt = Null
  /\ isImageLoading


\* C29: within one generation the art is assigned at most once and the image
\* at most once: an art or image task that has settled never runs a callback
\* again, and the art and the image shown change only in the step that starts
\* a generation (reset to none) or in the step that settles the pending task
\* of the current generation
C29_AssignedAtMostOnce ==
  /\ [][ \A g \in 1..Len(gens) :
           /\ gens[g].art.st \notin {"calling", "hit"}
                => gens'[g].art.st \notin {"calling", "hit"}
           /\ gens[g].img.st \notin {"calling", "hit"}
                => gens'[g].img.st \notin {"calling", "hit"} ]_vars
  /\ [][ asciiArt' # asciiArt
           => \/ Len(gens') > Len(gens) /\ asciiArt' = Null
              \/ \E g \in 1..Len(gens) :
                   /\ ~gens[g].isCancelled
                   /\ gens[g].art.st \in {"calling", "hit"}
                   /\ gens'[g].art.st \in {"done", "fallback"} ]_vars
  /\ [][ imageUrl' # imageUrl
           => \/ Len(gens') > Len(gens) /\ imageUrl' = Null
              \/ \E g \in 1..Len(gens) :
                   /\ ~gens[g].isCancelled
                   /\ gens[g].img.st \in {"calling", "hit"}
                   /\ gens'[g].img.st \in {"done", "absent"} ]_vars

\* the art of the provider is shown, the image call has ended without an
\* image, and the generation has gone on to the end of its stream
C29_Witness ==
  /\ Len(gens) = 1
  /\ gens[1].art.st = "done"
  /\ asciiArt \in ArtPayloads(gens[1].topic) \ {""}
  /\ gens[1].img.st = "absent"
  /\ imageUrl = Null
  /\ gens[1].def.st = "ended"


\* C30: an entry of the response cache is stable: a key that holds a value is
\* never removed and never comes to hold another value
C30_CacheEntriesStable ==
  [][ \A k \in DOMAIN cache : k \in DOMAIN cache' /\ cache'[k] = cache[k] ]_vars


\* C31 as stated: the delay waited before attempt k, counted from 0, is
\* baseDelay * 2^k plus a jitter of 0 to 500 ms (delays[k] is the delay that
\* was waited before attempt k)
C31_DelayBeforeAttemptK ==
  \A k \in 1..Len(wrapper.delays) :
    /\ wrapper.delays[k] >= wrapper.baseDelay * pow2(k)
    /\ wrapper.delays[k] <= wrapper.baseDelay * pow2(k) + JITTER_MAX

\* C31 amended: the delay waited after the failure of attempt k, that is
\* before attempt k + 1, is baseDelay * 2^k plus a jitter of 0 to 500 ms; one
\* delay is waited per retry, so none before attempt 0 and none after the
\* attempt that ends the call
C31_DelayAfterAttemptK ==
  /\ \A k \in 0..(Len(wrapper.delays) - 1) :
       /\ wrapper.delays[k + 1] >= wrapper.baseDelay * pow2(k)
       /\ wrapper.delays[k + 1] <= wrapper.baseDelay * pow2(k) + JITTER_MAX
  /\ wrapper.st = "waiting" => Len(wrapper.delays) = wrapper.calls
  /\ wrapper.st \in {"calling", "returned", "thrown"}
       => Len(wrapper.delays) = wrapper.calls - 1
  /\ wrapper.st = "idle" => wrapper.delays = <<>>

\* three retries were made and the call failed for good: the third delay is
\* four times the base delay and the largest jitter
C31_Witness ==
  /\ wrapper.st = "thrown"
  /\ wrapper.calls = 4
  /\ Len(wrapper.delays) = 3
  /\ wrapper.delays[1] = wrapper.baseDelay
  /\ wrapper.delays[3] = 4 * wrapper.baseDelay + 499


\* the position of the first line break of s at or after i, 0 when none
RECURSIVE lineBreakFrom(_, _)
lineBreakFrom(s, i) ==
  IF i > Len(s) THEN 0
  ELSE IF CharAt(s, i) = "\n" THEN i ELSE lineBreakFrom(s, i + 1)

\* the lines of s
RECURSIVE splitLines(_)
splitLines(s) ==
  LET b == lineBreakFrom(s, 1) IN
  IF b = 0 THEN <<s>>
  ELSE <<SubSeq(s, 1, b - 1)>> \o splitLines(SubSeq(s, b + 1, Len(s)))

\* the text the box shows for a topic: the topic, or its first 17 characters
\* and "..." when it is longer than 20
shownTopic(topic) ==
  IF Len(topic) <= 20 THEN topic ELSE SubSeq(topic, 1, 17) \o "..."

\* C32: the fallback art shown for a topic is three lines of equal length, a
\* box whose middle line holds the topic with one space on each side; a topic
\* of at most 20 characters is shown whole, a longer one as its first 17
\* characters and "...", so that the text shown has at most 20 characters
C32_FallbackArtBox ==
  \A g \in 1..Len(gens) :
    ~gens[g].isCancelled /\ gens[g].art.st = "fallback"
      => LET ls == splitLines(asciiArt) IN
         /\ asciiArt = createFallbackArt(gens[g].topic)
         /\ Len(ls) = 3
         /\ Len(ls[1]) = Len(ls[2]) /\ Len(ls[3]) = Len(ls[2])
         /\ ls[2] = "| " \o shownTopic(gens[g].topic) \o " |"
         /\ ls[1] = "+" \o repeat("-", Len(ls[2]) - 2) \o "+"
         /\ ls[3] = ls[1]
         /\ Len(shownTopic(gens[g].topic)) <= 20
         /\ Len(ls[2]) <= 24

\* the fallback art of a topic of 26 characters is shown, cut to 17 and "..."
C32_Witness ==
  /\ Len(gens) = 1
  /\ Len(gens[1].topic) = 26
  /\ gens[1].art.st = "fallback"
  /\ splitLines(asciiArt)[2] = "| abcdefghijklmnopq... |"


\* C33: callWithRetry returns what the first attempt that succeeds resolved
\* to and does not invoke the operation again: when attempt j is the first
\* success the operation was invoked j + 1 times, each of the j earlier
\* attempts failed with a transient error, and the call stays returned
C33_FirstSuccessReturned ==
  /\ [](wrapper.st \in {"calling", "returned"}
          => /\ wrapper.calls = wrapper.attempt + 1
             /\ Len(wrapper.failures) = wrapper.attempt
             /\ \A k \in 1..Len(wrapper.failures) :
                  isRateLimit(wrapper.failures[k]) \/ isOverloaded(wrapper.failures[k]))
  /\ [](wrapper.st = "returned" => wrapper.result = ResultOfCall(wrapper.attempt + 1))
  /\ [][wrapper.st = "returned" => wrapper' = wrapper]_vars

\* the third attempt succeeded after two transient failures
C33_Witness ==
  /\ wrapper.st = "returned"
  /\ wrapper.attempt = 2
  /\ wrapper.calls = 3
  /\ Len(wrapper.failures) = 2
  /\ wrapper.result = ResultOfCall(3)
  /\ wrapper.maxRetries = 3


\* C34: whatever is shown (a non-empty content, an art, an image, an error,
\* an elapsed time) was produced by the generation of the topic shown as the
\* active topic: when any of them is shown, the current generation is the
\* one of currentTopic (or of the same topic in another case)
C34_ShownBelongsToActiveTopic ==
  \/ content # ""
  \/ asciiArt # Null
  \/ imageUrl # Null
  \/ error # Null
  \/ generationTime # NoTime
  => /\ Len(gens) >= 1
     /\ ~gens[Len(gens)].isCancelled
     /\ SameTopic(gens[Len(gens)].topic, currentTopic)


\* C35: when no further topic is submitted and every provider call and
\* stream settles, the generation comes to rest with the definition-loading
\* flag and the image-loading flag false and an art shown, whatever the
\* provider answered
C35_GenerationSettles ==
  <>[](/\ phase = "mounted"
       /\ ~isLoading
       /\ ~isImageLoading
       /\ asciiArt # Null)

\* every attempt of the three calls failed with a transient error, and the
\* generation has come to rest
C35_Witness ==
  /\ transientLeft = OutageRetries - 3 * MAX_RETRIES
  /\ Len(gens) = 1
  /\ gens[1].art.st = "fallback"
  /\ gens[1].img.st = "absent"
  /\ gens[1].def.st = "failed"
  /\ ~isLoading
  /\ ~isImageLoading
  /\ asciiArt # Null


C37_OnlySuccessesCached ==
  /\ [](\A k \in DOMAIN cache :
          \E g \in 1..Len(gens), v \in {"1", "2"} :
            cache[k] \in {stringifyArt(ArtOf(gens[g].topic, v)),
                          stringifyData(ImageOf(gens[g].topic, v))})
  /\ [][ /\ \A g \in 1..Len(gens) :
              /\ gens[g].art.st = "calling" /\ gens'[g].art.st = "fallback"
                   => cache' = cache
              /\ gens[g].img.st = "calling" /\ gens'[g].img.st = "absent"
                   => cache' = cache
         /\ Len(gens') > Len(gens) =>
              /\ asciiCacheKey(currentTopic, "Standard") \notin DOMAIN cache
                   => gens'[Len(gens')].art = Call(0)
              /\ imageCacheKey(currentTopic, "16:9", "Cinematic") \notin DOMAIN cache
                   => gens'[Len(gens')].img = Call(0) ]_vars

\* a topic is visited again after its art call and its image call have ended
\* without a result (nothing is stored under its keys): both calls go to
\* the provider
C37_Witness ==
  /\ Len(gens) = 3
  /\ gens[1].art.st = "over"
  /\ gens[1].img.st = "over"
  /\ asciiCacheKey(gens[1].topic, "Standard") \notin DOMAIN cache
  /\ imageCacheKey(gens[1].topic, "16:9", "Cinematic") \notin DOMAIN cache
  /\ SameTopic(gens[3].topic, gens[1].topic)
  /\ gens[3].art = Call(0)
  /\ gens[3].img = Call(0)
  /\ asciiArt = Null


\* C38: the search bar invokes onSearch only with a non-empty, trimmed query
\* and only while it is not disabled, from the form and from voice input
C38_SearchOnlyWhenEnabled ==
  \A i \in 1..Len(wrapper.onSearch) :
    /\ wrapper.onSearch[i].query # ""
    /\ trim(wrapper.onSearch[i].query) = wrapper.onSearch[i].query
    /\ ~wrapper.onSearch[i].disabled

====
